---------------------------- MODULE Spec2Model ----------------------------
(***************************************************************************)
(* A model of the Bastion SSH gateway (src/bastion): the listener and its  *)
(* per-connection handlers (server.py), the server interface callbacks and *)
(* the key authenticator (auth.py), the router (router.py), the catalog    *)
(* (db.py) and the relay engine (proxy.py).                                *)
(*                                                                         *)
(* Optional[T] values of the Python code are sequences of length <= 1:     *)
(* <<>> is None and <<x>> is the value x.                                  *)
(***************************************************************************)
EXTENDS Integers, Sequences, FiniteSets, TLC

\* ------------------------------------------------------------------ bounds

\* Number of client connections the listener accepts in one run.
MaxConns == 1

\* Number of times _cleanup_connection is run on one session.
MaxCleanups == 3

\* Number of times the server is built (BastionSSHServer.__init__ runs
\* _load_host_key) on the same host key file.
MaxBoots == 3

\* Number of payload bytes a peer writes into one relay direction.
MaxBytes == 3

\* ------------------------------------------------------- program constants

\* Config.MAX_CONNECTIONS_PER_IP (default of the environment variable).
MAX_CONNECTIONS_PER_IP == 5

\* Largest number of bytes one recv of _relay_data returns (the model's
\* stand-in for buffer_size = 4096).
MaxFrame == 2

None == <<>>
Some(x) == <<x>>
IsNone(o) == o = <<>>
Get(o) == o[1]

\* str() of an Optional[str]
Text(o) == IF IsNone(o) THEN "None" ELSE Get(o)

Conns == 1..MaxConns
Directions == {"c2t", "t2c"}

\* paramiko's return codes
AUTH_SUCCESSFUL == "AUTH_SUCCESSFUL"
AUTH_FAILED == "AUTH_FAILED"

\* ---------------------------------------------------------------- inputs

Usernames == {"alice", "mallory"}
SourceIps == {"198.51.100.7", "203.0.113.9"}
Passwords == {"hunter2"}

\* Public keys a client may present.  asbytes() of "keyBad" raises.
PKeys == {"keyA", "keyB", "keyC", "keyD", "keyN", "keyU", "keyBad"}

\* A key object whose asbytes() is b"" (what PKey.asbytes returns unless a
\* subclass overrides it).
EmptyBlobKeys == {"keyEmpty"}

\* Keys whose fingerprints are those of rows that SSHKey refuses to build.
InvalidRowKeys == {"keyZ", "keyH", "keyE", "keyG"}

\* Keys authenticate_key can be called with.
AuthKeys == PKeys \cup EmptyBlobKeys \cup InvalidRowKeys

\* The SHA-256/base64 fingerprint of each key blob, as a table: the digest
\* is injective on the blobs of the model.  The digest of the empty blob
\* is the one hashlib gives.
Sha256Base64 ==
    [k \in AuthKeys \ {"keyBad"} |->
        CASE k = "keyA" -> "AAA="
          [] k = "keyB" -> "BBB="
          [] k = "keyC" -> "CCC="
          [] k = "keyD" -> "DDD="
          [] k = "keyN" -> "NNN="
          [] k = "keyU" -> "UUU="
          [] k = "keyZ" -> "ZZZ="
          [] k = "keyH" -> "HHH="
          [] k = "keyE" -> "EEE="
          [] k = "keyG" -> "GGG="
          [] k = "keyEmpty" -> "47DEQpj8HBSa+/TImW+5JCeuQeRkm5NMpJWZG3hSuFU="]

\* str.rstrip('=') on the base64 text.
RstripPad(s) ==
    CASE s = "AAA=" -> "AAA"
      [] s = "BBB=" -> "BBB"
      [] s = "CCC=" -> "CCC"
      [] s = "DDD=" -> "DDD"
      [] s = "NNN=" -> "NNN"
      [] s = "UUU=" -> "UUU"
      [] s = "ZZZ=" -> "ZZZ"
      [] s = "HHH=" -> "HHH"
      [] s = "EEE=" -> "EEE"
      [] s = "GGG=" -> "GGG"
      [] s = "47DEQpj8HBSa+/TImW+5JCeuQeRkm5NMpJWZG3hSuFU="
            -> "47DEQpj8HBSa+/TImW+5JCeuQeRkm5NMpJWZG3hSuFU"
      [] OTHER -> s

\* SSHKeyAuth.get_key_fingerprint: "" when the key bytes cannot be read.
get_key_fingerprint(key) ==
    IF key \notin DOMAIN Sha256Base64
    THEN ""
    ELSE "SHA256:" \o RstripPad(Sha256Base64[key])

\* ------------------------------------------------------------- addresses

\* ipaddress.ip_address on the host strings of the model: the dotted quad's
\* octets, or None for a ValueError (a DNS name, the empty string).
ip_address(host) ==
    CASE host = "10.0.0.5"     -> Some(<<10, 0, 0, 5>>)
      [] host = "10.10.254.42" -> Some(<<10, 10, 254, 42>>)
      [] host = "10.10.254.0"  -> Some(<<10, 10, 254, 0>>)
      [] host = "10.10.255.1"  -> Some(<<10, 10, 255, 1>>)
      [] host = "192.168.7.9"  -> Some(<<192, 168, 7, 9>>)
      [] OTHER -> None

\* The text of a CIDR split at "/": [addr, prefix], or None for a ValueError.
ParseCidr(text) ==
    CASE text = "10.10.254.0/24"  -> Some([addr |-> <<10, 10, 254, 0>>, prefix |-> 24])
      [] text = "10.10.254.42/24" -> Some([addr |-> <<10, 10, 254, 42>>, prefix |-> 24])
      [] text = "192.168.0.0/16"  -> Some([addr |-> <<192, 168, 0, 0>>, prefix |-> 16])
      [] text = "10.10.254.42/32" -> Some([addr |-> <<10, 10, 254, 42>>, prefix |-> 32])
      [] OTHER -> None

Pow2(n) == IF n = 0 THEN 1 ELSE IF n = 1 THEN 2 ELSE IF n = 2 THEN 4
           ELSE IF n = 3 THEN 8 ELSE IF n = 4 THEN 16 ELSE IF n = 5 THEN 32
           ELSE IF n = 6 THEN 64 ELSE 128

OctetBits(o) == [i \in 1..8 |-> (o \div Pow2(8 - i)) % 2]

\* The 32 bits of an IPv4 address, most significant first.
AddrBits(octets) ==
    OctetBits(octets[1]) \o OctetBits(octets[2]) \o
    OctetBits(octets[3]) \o OctetBits(octets[4])

\* ipaddress.ip_network(text, strict=False): host bits are masked off, so
\* the network is the first `prefix` bits of the address.
ip_network(text) ==
    IF IsNone(ParseCidr(text))
    THEN None
    ELSE Some([bits |-> SubSeq(AddrBits(Get(ParseCidr(text)).addr), 1,
                               Get(ParseCidr(text)).prefix),
               prefix |-> Get(ParseCidr(text)).prefix])

\* `address in network`
NetworkContains(net, octets) ==
    SubSeq(AddrBits(octets), 1, net.prefix) = net.bits

\* ---------------------------------------------------------------- models.py

\* SSHKey.__post_init__ passes (no ValueError).
SSHKeyValid(r) ==
    /\ r.fingerprint # ""
    /\ r.target_host # ""
    /\ r.target_user # ""
    /\ ~(r.target_port < 1 \/ r.target_port > 65535)

\* Target.__post_init__ passes (no ValueError).
TargetValid(host, port, user) ==
    /\ host # ""
    /\ user # ""
    /\ ~(port < 1 \/ port > 65535)

Row(id, fp, username, host, port, user, enabled) ==
    [id |-> id, fingerprint |-> fp, username |-> username, target_host |-> host,
     target_port |-> port, target_user |-> user, enabled |-> enabled]

\* Rows of table ssh_keys used by the model.
RowA == Row(1, "SHA256:AAA", "alice", "10.0.0.5", 22, "ubuntu", TRUE)
RowB == Row(2, "SHA256:BBB", "bob", "10.10.254.42", 22, "ubuntu", TRUE)
RowC == Row(3, "SHA256:CCC", "carol", "10.0.0.5", 22, "ubuntu", FALSE)
RowD == Row(4, "SHA256:DDD", "dave", "vm.internal", 2222, "deploy", TRUE)
RowN == Row(5, "SHA256:NNN", "nina", "10.10.254.0", 22, "ubuntu", TRUE)

\* The deployments of the model: the rows the server finds in its database
\* file at start, and Config.RESTRICTED_NETWORKS (the split of the
\* environment text; the second has host bits set in a CIDR).
Deployments ==
    { [catalog |-> {RowA, RowB, RowC, RowD, RowN},
       restricted_networks |-> <<"10.10.254.0/24">>],
      [catalog |-> {[RowA EXCEPT !.enabled = FALSE],
                    [RowC EXCEPT !.enabled = TRUE], RowB},
       restricted_networks |-> <<"192.168.0.0/16", "10.10.254.42/24">>] }

\* Rows a database file can hold that SSHKey would refuse to build (the
\* schema has no CHECK on them), and rows at the edges of the port range.
RowZ == Row(6, "SHA256:ZZZ", "zed", "10.0.0.5", 0, "ubuntu", TRUE)
RowH == Row(7, "SHA256:HHH", "hal", "10.0.0.5", 65536, "ubuntu", TRUE)
RowE == Row(8, "SHA256:EEE", "eve", "", 22, "ubuntu", TRUE)
RowG == Row(9, "SHA256:GGG", "gus", "10.0.0.5", 22, "", TRUE)
RowL == Row(10, "SHA256:LLL", "lou", "10.0.0.5", 1, "ubuntu", TRUE)
RowM == Row(11, "SHA256:MMM", "mia", "192.168.7.9", 65535, "ubuntu", TRUE)

\* A row registered under the fingerprint of the empty key blob.
RowEmptyBlob ==
    Row(12, "SHA256:47DEQpj8HBSa+/TImW+5JCeuQeRkm5NMpJWZG3hSuFU", "nobody",
        "10.0.0.5", 22, "ubuntu", TRUE)

\* Contents of table ssh_keys the catalog functions are applied to.
Catalogs ==
    {dep.catalog : dep \in Deployments}
    \cup {{RowA, RowC, RowD, RowZ, RowH, RowE, RowG, RowL, RowM, RowEmptyBlob}}

\* Values of Config.RESTRICTED_NETWORKS: those of the deployments, and the
\* split of an empty RESTRICTED_NETWORKS variable.
NetworkLists ==
    {dep.restricted_networks : dep \in Deployments} \cup {<<"">>}

\* Fingerprints looked up: those of all rows, one of no row, and the one
\* BastionMain.test_config asks for.
Fingerprints ==
    {r.fingerprint : r \in UNION Catalogs} \cup {"SHA256:UUU", "test-fingerprint"}

\* -------------------------------------------------------------------- db.py

\* find_ssh_key as it would be without `AND enabled = 1` in its query.
find_ssh_key_any(cat, fingerprint) ==
    LET rows == {r \in cat : r.fingerprint = fingerprint}
    IN  IF rows = {}
        THEN None
        ELSE LET row == CHOOSE r \in rows : TRUE
             IN  IF SSHKeyValid(row) THEN Some(row) ELSE None

\* find_ssh_key as it would be if it returned the row's fields without
\* building an SSHKey from them.
find_ssh_key_unchecked(cat, fingerprint) ==
    LET rows == {r \in cat : r.fingerprint = fingerprint /\ r.enabled}
    IN  IF rows = {} THEN None ELSE Some(CHOOSE r \in rows : TRUE)

\* Database.find_ssh_key: the row WHERE fingerprint = ? AND enabled = 1,
\* rebuilt as an SSHKey; None when there is no such row or SSHKey() raises.
find_ssh_key(cat, fingerprint) ==
    LET rows == {r \in cat : r.fingerprint = fingerprint /\ r.enabled}
    IN  IF rows = {}
        THEN None
        ELSE LET row == CHOOSE r \in rows : TRUE
             IN  IF SSHKeyValid(row) THEN Some(row) ELSE None

\* SSHKey objects handed to add_ssh_key: built with SSHKey(...), so that
\* __post_init__ passed, and without an id.
KeyBinding(fp, username, host, port, user, enabled) ==
    [id |-> None, fingerprint |-> fp, username |-> username, target_host |-> host,
     target_port |-> port, target_user |-> user, enabled |-> enabled]

\* The bindings of the model: fingerprints that rows of the deployments
\* have already (with other fields), new ones, enabled and disabled, and
\* two bindings that share a new fingerprint.
KeyBindings ==
    {KeyBinding("SHA256:AAA", "alice2", "192.168.7.9", 2222, "root", TRUE),
     KeyBinding("SHA256:CCC", "carol", "10.0.0.5", 22, "ubuntu", TRUE),
     KeyBinding("SHA256:PPP", "pat", "10.0.0.5", 22, "ubuntu", TRUE),
     KeyBinding("SHA256:PPP", "pat2", "vm.internal", 2222, "deploy", FALSE),
     KeyBinding("SHA256:QQQ", "quinn", "vm.internal", 65535, "deploy", FALSE)}

\* The value sqlite3 stores in column `enabled` for a Python bool, and
\* bool(row['enabled']) of a stored value.
StoredEnabled(b) == IF b THEN 1 ELSE 0
LoadedEnabled(v) == v # 0

\* The id AUTOINCREMENT gives the next row: one more than the largest id.
NextId(cat) ==
    IF cat = {} THEN 1
    ELSE 1 + (CHOOSE n \in {r.id : r \in cat} : \A r \in cat : r.id <= n)

\* The row the INSERT of add_ssh_key writes.
InsertedRow(cat, ssh_key) ==
    Row(NextId(cat), ssh_key.fingerprint, ssh_key.username, ssh_key.target_host,
        ssh_key.target_port, ssh_key.target_user,
        LoadedEnabled(StoredEnabled(ssh_key.enabled)))

\* add_ssh_key as it would be if its INSERT left target_port to the
\* column's DEFAULT 22.
add_ssh_key_default_port(cat, ssh_key, writable) ==
    IF ~writable \/ \E r \in cat : r.fingerprint = ssh_key.fingerprint
    THEN [ret |-> FALSE, catalog |-> cat]
    ELSE [ret |-> TRUE,
          catalog |-> cat \cup {[InsertedRow(cat, ssh_key) EXCEPT !.target_port = 22]}]

\* add_ssh_key as it would be with INSERT OR REPLACE.
add_ssh_key_replace(cat, ssh_key, writable) ==
    IF ~writable
    THEN [ret |-> FALSE, catalog |-> cat]
    ELSE [ret |-> TRUE,
          catalog |-> {r \in cat : r.fingerprint # ssh_key.fingerprint}
                        \cup {InsertedRow(cat, ssh_key)}]

\* Database.add_ssh_key: True and the table with the new row; False and
\* the table as it was when the INSERT raises, which it does for a
\* fingerprint the table holds (fingerprint TEXT UNIQUE) and when the
\* database cannot be written.
add_ssh_key(cat, ssh_key, writable) ==
    IF ~writable \/ \E r \in cat : r.fingerprint = ssh_key.fingerprint
    THEN [ret |-> FALSE, catalog |-> cat]
    ELSE [ret |-> TRUE, catalog |-> cat \cup {InsertedRow(cat, ssh_key)}]

\* Database.get_target_for_key
get_target_for_key(cat, fingerprint) ==
    LET ssh_key == find_ssh_key(cat, fingerprint)
    IN  IF ~IsNone(ssh_key) /\ Get(ssh_key).enabled
        THEN Some([host |-> Get(ssh_key).target_host,
                   port |-> Get(ssh_key).target_port,
                   user |-> Get(ssh_key).target_user])
        ELSE None

\* ------------------------------------------------------------------ auth.py

\* authenticate_key as it would be if the presented username had to equal
\* the binding's username.
authenticate_key_username(username, public_key, source_ip, cat) ==
    LET ssh_key == find_ssh_key(cat, get_key_fingerprint(public_key))
    IN  IF ~IsNone(ssh_key) /\ Get(ssh_key).username = username
        THEN [success |-> TRUE, ssh_key |-> ssh_key, denied |-> None,
              looked_up |-> TRUE]
        ELSE [success |-> FALSE, ssh_key |-> None, denied |-> None,
              looked_up |-> TRUE]

\* What the database can do with a lookup: answer it; fail (sqlite3 raises
\* inside find_ssh_key, whose except branch returns None); or raise.
LookupOutcomes == {"answers", "fails", "raises"}

\* What the call database.find_ssh_key(fingerprint) gives authenticate_key.
Lookup(cat, fingerprint, outcome) ==
    CASE outcome = "answers" ->
            [raised |-> FALSE, ssh_key |-> find_ssh_key(cat, fingerprint)]
      [] outcome = "fails" -> [raised |-> FALSE, ssh_key |-> None]
      [] outcome = "raises" -> [raised |-> TRUE, ssh_key |-> None]

\* The body of SSHKeyAuth.authenticate_key, `lookup` being what its call of
\* database.find_ssh_key does: (success, ssh_key), the denial it logs, and
\* whether it called database.find_ssh_key.
authenticate_key_on(username, public_key, source_ip, lookup) ==
    LET fingerprint == get_key_fingerprint(public_key)
        ssh_key == lookup.ssh_key
        Denied(fp, reason, asked) ==
            [success |-> FALSE, ssh_key |-> None,
             denied |-> Some([source_ip |-> source_ip, fingerprint |-> fp,
                              username |-> username, reason |-> reason]),
             looked_up |-> asked]
    IN  IF fingerprint = ""
        THEN Denied("INVALID", "Could not calculate key fingerprint", FALSE)
        ELSE IF lookup.raised
        THEN Denied(fingerprint, "Authentication error", TRUE)
        ELSE IF IsNone(ssh_key)
        THEN Denied(fingerprint, "SSH key not found in database", TRUE)
        ELSE IF ~Get(ssh_key).enabled
        THEN Denied(fingerprint, "SSH key is disabled", TRUE)
        ELSE [success |-> TRUE, ssh_key |-> ssh_key, denied |-> None,
              looked_up |-> TRUE]

\* SSHKeyAuth.authenticate_key on a database that answers.
authenticate_key(username, public_key, source_ip, cat) ==
    authenticate_key_on(username, public_key, source_ip,
                        Lookup(cat, get_key_fingerprint(public_key), "answers"))

\* BastionSSHServerInterface.__init__
NewInterface(source_ip) ==
    [source_ip |-> source_ip, authenticated_key |-> None, username |-> None]

\* check_auth_password as it would be if a refused password also reset
\* the interface.
check_auth_password_clears(iface, username, password) ==
    [ret |-> AUTH_FAILED, iface |-> NewInterface(iface.source_ip), denied |-> None]

\* BastionSSHServerInterface.check_auth_password
check_auth_password(iface, username, password) ==
    [ret |-> AUTH_FAILED,
     iface |-> iface,
     denied |-> Some([source_ip |-> iface.source_ip, fingerprint |-> "N/A",
                      username |-> username,
                      reason |-> "Password authentication not allowed"])]

\* What a call of auth_handler.authenticate_key gives its caller: the
\* tuple it returned, or an exception.
Returned(r) ==
    [raised |-> FALSE, success |-> r.success, ssh_key |-> r.ssh_key,
     denied |-> r.denied]
RaisedInAuthenticator ==
    [raised |-> TRUE, success |-> FALSE, ssh_key |-> None, denied |-> None]

\* check_auth_publickey as it would be if it stashed the username before
\* looking at the authenticator's answer.
check_auth_publickey_stashes_first(iface, username, r) ==
    IF ~r.raised /\ r.success /\ ~IsNone(r.ssh_key)
    THEN [ret |-> AUTH_SUCCESSFUL,
          iface |-> [iface EXCEPT !.authenticated_key = r.ssh_key,
                                  !.username = Some(username)],
          denied |-> r.denied]
    ELSE [ret |-> AUTH_FAILED,
          iface |-> [iface EXCEPT !.username = Some(username)],
          denied |-> r.denied]

\* check_auth_publickey as it would be if a refused key cleared what an
\* earlier call had stashed.
check_auth_publickey_clears(iface, username, r) ==
    IF ~r.raised /\ r.success /\ ~IsNone(r.ssh_key)
    THEN [ret |-> AUTH_SUCCESSFUL,
          iface |-> [iface EXCEPT !.authenticated_key = r.ssh_key,
                                  !.username = Some(username)],
          denied |-> r.denied]
    ELSE [ret |-> AUTH_FAILED,
          iface |-> [iface EXCEPT !.authenticated_key = None,
                                  !.username = None],
          denied |-> IF r.raised THEN None ELSE r.denied]

\* The body of check_auth_publickey once the authenticator answered r:
\* `if success and ssh_key` stashes and accepts, anything else, the except
\* branch included, returns AUTH_FAILED.
check_auth_publickey_on(iface, username, r) ==
    IF r.raised
    THEN [ret |-> AUTH_FAILED, iface |-> iface, denied |-> None]
    ELSE IF r.success /\ ~IsNone(r.ssh_key)
    THEN [ret |-> AUTH_SUCCESSFUL,
          iface |-> [iface EXCEPT !.authenticated_key = r.ssh_key,
                                  !.username = Some(username)],
          denied |-> r.denied]
    ELSE [ret |-> AUTH_FAILED, iface |-> iface, denied |-> r.denied]

\* BastionSSHServerInterface.check_auth_publickey
check_auth_publickey(iface, username, key, cat) ==
    check_auth_publickey_on(iface, username,
        Returned(authenticate_key(username, key, iface.source_ip, cat)))

\* get_allowed_auths as it would be if it offered passwords until a key
\* was accepted.
get_allowed_auths_password(iface, username) ==
    IF IsNone(iface.authenticated_key) THEN "publickey,password" ELSE "publickey"

\* BastionSSHServerInterface.get_allowed_auths
get_allowed_auths(iface, username) == "publickey"

\* paramiko's channel-open codes
OPEN_SUCCEEDED == "OPEN_SUCCEEDED"
OPEN_FAILED_ADMINISTRATIVELY_PROHIBITED == "OPEN_FAILED_ADMINISTRATIVELY_PROHIBITED"

\* Channel kinds a client may ask for.
ChannelKinds ==
    {"session", "direct-tcpip", "forwarded-tcpip", "x11", "Session", "session@openssh.com"}

\* Channel ids of the requests.
ChannelIds == {0, 1}

\* Whether `kind` begins with 'session'.
StartsWithSession(kind) == kind \in {"session", "session@openssh.com"}

\* check_channel_request as it would be with kind.startswith('session').
check_channel_request_prefix(kind, chanid) ==
    IF StartsWithSession(kind)
    THEN OPEN_SUCCEEDED
    ELSE OPEN_FAILED_ADMINISTRATIVELY_PROHIBITED

\* BastionSSHServerInterface.check_channel_request
check_channel_request(kind, chanid) ==
    IF kind = "session"
    THEN OPEN_SUCCEEDED
    ELSE OPEN_FAILED_ADMINISTRATIVELY_PROHIBITED

\* Commands of exec requests (bytes; decode(errors='ignore') never raises).
Commands == {"id", "cat /etc/shadow", "\\xff\\xfe"}

\* BastionSSHServerInterface.check_channel_shell_request on an interface in
\* state iface, for a channel in state chan: the answer, and the interface
\* and the channel as the call leaves them (it only logs).
check_channel_shell_request(iface, chan) ==
    [ret |-> FALSE, iface |-> iface, channel |-> chan]

\* check_channel_exec_request as it would be if it closed the channel it
\* refuses.
check_channel_exec_request_closes(iface, chan, command) ==
    [ret |-> FALSE, iface |-> iface, channel |-> "closed"]

\* BastionSSHServerInterface.check_channel_exec_request
check_channel_exec_request(iface, chan, command) ==
    [ret |-> FALSE, iface |-> iface, channel |-> chan]

\* Subsystem names a client may ask for.
SubsystemNames == {"sftp", "SFTP", "sftp-server", "netconf", ""}

\* str.lower() on the subsystem names.
Lower(name) == IF name = "SFTP" THEN "sftp" ELSE name

\* check_channel_subsystem_request as it would be with
\* name.lower() == 'sftp'.
check_channel_subsystem_request_lower(iface, chan, name) ==
    [ret |-> Lower(name) = "sftp", iface |-> iface, channel |-> chan]

\* BastionSSHServerInterface.check_channel_subsystem_request
check_channel_subsystem_request(iface, chan, name) ==
    [ret |-> name = "sftp", iface |-> iface, channel |-> chan]

\* ---------------------------------------------------------------- router.py

\* The loop of _validate_target as it would be if it returned after the
\* first configured network.
NotRestrictedFirstOnly(host, nets, i) ==
    IF i > Len(nets)
    THEN TRUE
    ELSE IF IsNone(ip_address(host)) \/ IsNone(ip_network(nets[i]))
    THEN FALSE
    ELSE ~NetworkContains(Get(ip_network(nets[i])), Get(ip_address(host)))

\* The loop of _validate_target over Config.RESTRICTED_NETWORKS from entry i:
\* a ValueError of ip_address or ip_network, or a match, returns False.
RECURSIVE NotRestrictedFrom(_, _, _)
NotRestrictedFrom(host, nets, i) ==
    IF i > Len(nets)
    THEN TRUE
    ELSE IF IsNone(ip_address(host)) \/ IsNone(ip_network(nets[i]))
    THEN FALSE
    ELSE IF NetworkContains(Get(ip_network(nets[i])), Get(ip_address(host)))
    THEN FALSE
    ELSE NotRestrictedFrom(host, nets, i + 1)

\* SSHRouter._validate_target
_validate_target(target, nets) ==
    IF target.host = "" \/ target.user = ""
    THEN FALSE
    ELSE IF target.port < 1 \/ target.port > 65535
    THEN FALSE
    ELSE NotRestrictedFrom(target.host, nets, 1)

\* get_target as it would be if it took the binding's host, port and user
\* on trust and only checked the restricted networks.
get_target_trusting(ssh_key, username, source_ip, nets) ==
    IF IsNone(ssh_key) \/ ~Get(ssh_key).enabled
    THEN [target |-> None, logged |-> "denied",
          reason |-> "SSH key not valid or disabled", events |-> <<>>]
    ELSE LET k == Get(ssh_key)
             target == [host |-> k.target_host, port |-> k.target_port,
                        user |-> k.target_user]
         IN  IF ~NotRestrictedFrom(target.host, nets, 1)
             THEN [target |-> None, logged |-> "denied",
                   reason |-> "Invalid target configuration", events |-> <<>>]
             ELSE [target |-> Some(target), logged |-> "success",
                   reason |-> "", events |-> <<>>]

\* SSHRouter.get_target: the Target or None, the line written to the text
\* log, and the ConnectionEvents handed to Database.log_connection_event.
get_target(ssh_key, username, source_ip, nets) ==
    IF IsNone(ssh_key) \/ ~Get(ssh_key).enabled
    THEN [target |-> None, logged |-> "denied",
          reason |-> "SSH key not valid or disabled", events |-> <<>>]
    ELSE LET k == Get(ssh_key)
             target == [host |-> k.target_host, port |-> k.target_port,
                        user |-> k.target_user]
             Event(status, t, msg) ==
                 [fingerprint |-> k.fingerprint, source_ip |-> source_ip,
                  target_host |-> IF IsNone(t) THEN "" ELSE Get(t).host,
                  target_user |-> IF IsNone(t) THEN "" ELSE Get(t).user,
                  username |-> username, status |-> status,
                  error_message |-> msg]
         IN  IF ~TargetValid(k.target_host, k.target_port, k.target_user)
             THEN [target |-> None, logged |-> "error",
                   reason |-> "ValueError",
                   events |-> <<Event("error", None, Some("ValueError"))>>]
             ELSE IF ~_validate_target(target, nets)
             THEN [target |-> None, logged |-> "denied",
                   reason |-> "Invalid target configuration", events |-> <<>>]
             ELSE [target |-> Some(target), logged |-> "success",
                   reason |-> "", events |-> <<Event("success", Some(target), None)>>]

\* What becomes of an event inside the try of _log_connection_event: the
\* database stores it; Database.log_connection_event fails and returns
\* False; or an exception is raised there.
LogOutcomes == {"stored", "error", "raises"}

\* _log_connection_event as it would be without its try/except.
_log_connection_event_unguarded(events, outcome) ==
    [stored |-> IF outcome = "stored" THEN events ELSE <<>>,
     raised |-> outcome = "raises"]

\* SSHRouter._log_connection_event: the rows written to connection_logs,
\* and whether an exception leaves it (its except branch catches all).
_log_connection_event(events, outcome) ==
    [stored |-> IF outcome = "stored" THEN events ELSE <<>>,
     raised |-> FALSE]

\* SSHRouter.get_target with the writing of its event: what it returns and
\* the rows written.  An exception out of _log_connection_event on the
\* success path would be caught by the except branch of get_target, which
\* returns None.
get_target_recorded(ssh_key, username, source_ip, nets, outcome) ==
    LET r == get_target(ssh_key, username, source_ip, nets)
        l == _log_connection_event(r.events, outcome)
    IN  IF r.events = <<>>
        THEN [target |-> r.target, stored |-> <<>>]
        ELSE IF l.raised
        THEN [target |-> None, stored |-> <<>>]
        ELSE [target |-> r.target, stored |-> l.stored]

\* ---------------------------------------------------------------- config.py

\* The attributes of Config that Config.validate reads, at their defaults.
DefaultConfig ==
    [BASTION_PORT |-> 2222, CONNECTION_TIMEOUT |-> 300,
     MAX_CONNECTIONS_PER_IP |-> MAX_CONNECTIONS_PER_IP]

\* Values the environment variables give them.
Configs ==
    [BASTION_PORT : {0, 1, 2222, 65535, 65536},
     CONNECTION_TIMEOUT : {-1, 0, 1, 300},
     MAX_CONNECTIONS_PER_IP : {0, 1, MAX_CONNECTIONS_PER_IP}]

\* Config.validate as it would be without the check of CONNECTION_TIMEOUT.
validate_no_timeout(cfg) ==
    IF cfg.BASTION_PORT < 1 \/ cfg.BASTION_PORT > 65535
    THEN Some("Invalid port number")
    ELSE IF cfg.MAX_CONNECTIONS_PER_IP < 1
    THEN Some("Invalid max connections per IP")
    ELSE None

\* Config.validate: the ValueError it raises, or None when it returns.
validate(cfg) ==
    IF cfg.BASTION_PORT < 1 \/ cfg.BASTION_PORT > 65535
    THEN Some("Invalid port number")
    ELSE IF cfg.CONNECTION_TIMEOUT < 1
    THEN Some("Invalid connection timeout")
    ELSE IF cfg.MAX_CONNECTIONS_PER_IP < 1
    THEN Some("Invalid max connections per IP")
    ELSE None

\* ------------------------------------------------- server.py: the host key

\* The n-th RSA key this machine has had, and a file content that
\* RSAKey.from_private_key_file cannot parse.
RsaKey(n) == [rsa |-> TRUE, id |-> n]
NotAKey == [rsa |-> FALSE, id |-> 0]

\* What Config.HOST_KEY_FILE holds before the first start: nothing (None),
\* an RSA private key, or something else.
KeyFiles == {None, Some(RsaKey(0)), Some(NotAKey)}

\* BastionSSHServer._load_host_key on a server whose host_key is None: the
\* key it ends with, the file it leaves, and whether it generated a key.
\* `fresh` is the key RSAKey.generate(2048) returns, `saved` whether
\* write_private_key_file succeeds (its failure is only warned about).
_load_host_key(file, fresh, saved) ==
    LET loaded == IF ~IsNone(file) /\ Get(file).rsa THEN file ELSE None
    IN  IF ~IsNone(loaded)
        THEN [host_key |-> loaded, key_file |-> file, generated |-> FALSE]
        ELSE [host_key |-> Some(fresh),
              key_file |-> IF saved THEN Some(fresh) ELSE file,
              generated |-> TRUE]

\* ------------------------------------------------------------------- state

VARIABLES
    \* BastionMain / BastionSSHServer
    appRunning,          \* BastionMain.running
    mainPc,              \* where BastionSSHServer.start() is
    running,             \* BastionSSHServer.running
    server_socket,       \* "none", "open", "closed"
    connection_count,    \* BastionSSHServer.connection_count
    others,              \* how many handlers of other connections are where
    fleet,               \* two sessions live at once, and the registries
    \* catalog and configuration
    catalog,             \* rows of table ssh_keys
    restricted_networks, \* Config.RESTRICTED_NETWORKS
    connection_logs,     \* rows of table connection_logs, by writing handler
    error_log,           \* lines written with log_connection_error, by handler
    \* configuration and host key
    config,              \* the attributes of Config that validate() reads
    key_file,            \* what Config.HOST_KEY_FILE holds
    host_key,            \* BastionSSHServer.host_key
    boots,               \* the runs of _load_host_key so far, in order
    \* one _handle_connection thread per accepted connection
    pc,                  \* the handler's position
    source_ip,
    client_socket,       \* "none", "open", "closed"
    transport,           \* "none", "active", "inactive", "closed"
    channel,             \* the client channel: "none", "open", "closed"
    iface,               \* the connection's BastionSSHServerInterface
    reply,               \* the last callback of the interface and its result
    target,              \* the router's answer
    exitReason,          \* the line the handler logged when it gave up
    \* one ProxySession / SSHProxy per connection
    dialed,              \* create_outbound_connection was called
    target_ssh,          \* the outbound SSHClient: "none", "open", "closed"
    target_channel,      \* "none", "open", "closed"
    active_connections,  \* the keys of SSHProxy.active_connections
    worker,              \* the two _relay_data threads
    monitor,             \* the _monitor_connection thread
    cleanup,             \* where _cleanup_connection is
    closeLog,            \* what _cleanup_connection did, in order
    closeRaised,         \* the handles whose close() raised
    \* payload of each relay direction
    rx,                  \* bytes _relay_data read from the source
    tx,                  \* bytes the destination accepted
    ended                \* how each _relay_data loop ended

serverVars == <<appRunning, mainPc, running, server_socket>>
cfgVars == <<catalog, restricted_networks>>
bootVars == <<config, key_file, host_key, boots>>
ifaceVars == <<iface, reply>>
handlerVars == <<pc, source_ip, client_socket, transport, channel, target, exitReason>>
sessionVars == <<dialed, target_ssh, target_channel, active_connections,
                 worker, monitor, cleanup, closeLog, closeRaised>>
relayVars == <<rx, tx, ended>>

vars == <<serverVars, connection_count, others, fleet, cfgVars, bootVars, connection_logs,
          error_log, ifaceVars, handlerVars, sessionVars, relayVars>>

NoReply == [op |-> "none", username |-> "", arg |-> "", ret |-> "", denied |-> None]
NoWorkers == [d \in Directions |-> "none"]
NoBytes == [d \in Directions |-> <<>>]

\* fingerprint[:8]
Slice8(fingerprint) ==
    CASE fingerprint = "SHA256:AAA" -> "SHA256:A"
      [] fingerprint = "SHA256:AXY" -> "SHA256:A"
      [] fingerprint = "SHA256:BBB" -> "SHA256:B"
      [] fingerprint = "SHA256:CCC" -> "SHA256:C"
      [] fingerprint = "SHA256:DDD" -> "SHA256:D"
      [] fingerprint = "SHA256:NNN" -> "SHA256:N"
      [] fingerprint = "SHA256:UUU" -> "SHA256:U"
      [] OTHER -> fingerprint

\* connection_id = f"{source_ip}:{fingerprint[:8]}"
ConnectionId(ip, fingerprint) == ip \o ":" \o Slice8(fingerprint)

\* The id under which connection c's session is registered.
SessionId(c) ==
    ConnectionId(source_ip[c], Get(iface[c].authenticated_key).fingerprint)

\* A server built on the default configuration and an existing host key
\* file.
Constructed ==
    /\ config = DefaultConfig
    /\ key_file = Some(RsaKey(0))
    /\ host_key = Some(RsaKey(0))
    /\ boots = <<[host_key |-> Some(RsaKey(0)), generated |-> FALSE]>>

\* Two sessions that can be live at once, and the SSHProxy objects they
\* can run on.
Sessions == {"first", "second"}
Proxies == Sessions \cup {"shared"}

\* The fingerprints of the two sessions' keys: the first two differ and
\* share their first 8 characters.
FleetFingerprints == {"SHA256:AAA", "SHA256:AXY", "SHA256:BBB"}

\* Neither session exists, and every registry is empty.
NoFleet ==
    [sessions |-> [s \in Sessions |->
                      [proxy |-> "", id |-> "", torn |-> FALSE,
                       handles |-> [client_channel |-> "none",
                                    target_channel |-> "none",
                                    target_ssh |-> "none"]]],
     registries |-> [p \in Proxies |-> {}]]

\* No handler of another connection is between its increment and its
\* decrement.
NoOthers == [limit |-> 0, served |-> 0, refused |-> 0]

Init ==
    /\ appRunning = TRUE
    /\ mainPc = "created"
    /\ running = FALSE
    /\ server_socket = "none"
    /\ connection_count = 0
    /\ others = NoOthers
    /\ fleet = NoFleet
    /\ \E dep \in Deployments :
         /\ catalog = dep.catalog
         /\ restricted_networks = dep.restricted_networks
    /\ connection_logs = [c \in Conns |-> <<>>]
    /\ error_log = [c \in Conns |-> <<>>]
    /\ Constructed
    /\ pc = [c \in Conns |-> "idle"]
    /\ source_ip = [c \in Conns |-> ""]
    /\ client_socket = [c \in Conns |-> "none"]
    /\ transport = [c \in Conns |-> "none"]
    /\ channel = [c \in Conns |-> "none"]
    /\ iface = [c \in Conns |-> NewInterface("")]
    /\ reply = [c \in Conns |-> NoReply]
    /\ target = [c \in Conns |-> None]
    /\ exitReason = [c \in Conns |-> ""]
    /\ dialed = [c \in Conns |-> FALSE]
    /\ target_ssh = [c \in Conns |-> "none"]
    /\ target_channel = [c \in Conns |-> "none"]
    /\ active_connections = [c \in Conns |-> {}]
    /\ worker = [c \in Conns |-> NoWorkers]
    /\ monitor = [c \in Conns |-> "none"]
    /\ cleanup = [c \in Conns |-> "idle"]
    /\ closeLog = [c \in Conns |-> <<>>]
    /\ closeRaised = [c \in Conns |-> {}]
    /\ rx = [c \in Conns |-> NoBytes]
    /\ tx = [c \in Conns |-> NoBytes]
    /\ ended = [c \in Conns |-> [d \in Directions |-> ""]]

\* ------------------------------------------------- server.py: the listener

\* BastionSSHServer.stop
stop_running == FALSE
stop_socket(sock) == IF sock = "none" THEN "none" ELSE "closed"

\* BastionSSHServer.start up to the accept loop: self.config.validate(),
\* then the socket is created, bound and listened on.  When validate
\* raises, start logs, runs stop() in its finally and raises.
ServerStart ==
    /\ mainPc = "created"
    /\ IF IsNone(validate(config))
       THEN /\ mainPc' = "accepting"
            /\ server_socket' = "open"
            /\ running' = TRUE
       ELSE /\ mainPc' = "failed"
            /\ server_socket' = stop_socket(server_socket)
            /\ running' = stop_running
    /\ UNCHANGED <<appRunning, connection_count, others, fleet, cfgVars, bootVars, connection_logs, error_log,
                   ifaceVars, handlerVars, sessionVars, relayVars>>

\* BastionMain.shutdown, run by the signal handler.
Shutdown ==
    /\ appRunning
    /\ mainPc = "accepting"
    /\ appRunning' = FALSE
    /\ running' = stop_running
    /\ server_socket' = stop_socket(server_socket)
    /\ UNCHANGED <<mainPc, connection_count, others, fleet, cfgVars, bootVars, connection_logs, error_log,
                   ifaceVars, handlerVars, sessionVars, relayVars>>

\* The accept loop of start() ends once running is False; finally: stop().
AcceptLoopExit ==
    /\ mainPc = "accepting"
    /\ ~running
    /\ mainPc' = "returned"
    /\ running' = stop_running
    /\ server_socket' = stop_socket(server_socket)
    /\ UNCHANGED <<appRunning, connection_count, others, fleet, cfgVars, bootVars, connection_logs, error_log,
                   ifaceVars, handlerVars, sessionVars, relayVars>>

\* The address connection c comes from.
ClientIp(c) == IF c % 2 = 1 THEN "198.51.100.7" ELSE "203.0.113.9"

\* server_socket.accept() returns and a handler thread is started.
Accept(c) ==
    /\ mainPc = "accepting"
    /\ running
    /\ server_socket = "open"
    /\ pc[c] = "idle"
    /\ \A b \in Conns : b < c => pc[b] # "idle"
    /\ source_ip' = [source_ip EXCEPT ![c] = ClientIp(c)]
    /\ pc' = [pc EXCEPT ![c] = "inc"]
    /\ client_socket' = [client_socket EXCEPT ![c] = "open"]
    /\ UNCHANGED <<serverVars, connection_count, others, fleet, cfgVars, bootVars, connection_logs, error_log,
                   ifaceVars, transport, channel, target, exitReason,
                   sessionVars, relayVars>>

\* ------------------------------------- server.py: _handle_connection

\* with self.connection_lock: self.connection_count += 1
Increment(c) ==
    /\ pc[c] = "inc"
    /\ connection_count' = connection_count + 1
    /\ pc' = [pc EXCEPT ![c] = "limit"]
    /\ UNCHANGED <<serverVars, others, fleet, cfgVars, bootVars, connection_logs, error_log, ifaceVars, source_ip,
                   client_socket, transport, channel, target, exitReason,
                   sessionVars, relayVars>>

\* _check_connection_limits as it would be if it refused only above the
\* cap.
_check_connection_limits_above(count) == ~(count > MAX_CONNECTIONS_PER_IP * 10)

\* BastionSSHServer._check_connection_limits
_check_connection_limits(count) == ~(count >= MAX_CONNECTIONS_PER_IP * 10)

\* The cap check; when it passes, the transport and the server interface
\* are created and the SSH server is started.
CheckLimits(c) ==
    /\ pc[c] = "limit"
    /\ IF ~_check_connection_limits(connection_count)
       THEN /\ client_socket' = [client_socket EXCEPT ![c] = "closed"]
            /\ exitReason' = [exitReason EXCEPT ![c] = "limit"]
            /\ pc' = [pc EXCEPT ![c] = "finally"]
            /\ UNCHANGED <<transport, iface>>
       ELSE /\ transport' = [transport EXCEPT ![c] = "active"]
            /\ iface' = [iface EXCEPT ![c] = NewInterface(source_ip[c])]
            /\ pc' = [pc EXCEPT ![c] = "handshake"]
            /\ UNCHANGED <<client_socket, exitReason>>
    /\ UNCHANGED <<serverVars, connection_count, others, fleet, cfgVars, bootVars, connection_logs, error_log,
                   reply, source_ip, channel, target, sessionVars, relayVars>>

\* The callbacks the transport makes on the connection's interface while
\* the handshake runs.  Recorded(...) notes a callback and its result in
\* `reply`; the handler itself never reads it.
Recorded(c, op, u, arg, ret, denied) ==
    reply' = [reply EXCEPT ![c] =
        [op |-> op, username |-> u, arg |-> arg, ret |-> ret, denied |-> denied]]

PasswordCall(c, u, pw) ==
    /\ pc[c] = "handshake"
    /\ iface' = [iface EXCEPT ![c] = check_auth_password(iface[c], u, pw).iface]

PublickeyCall(c, u, k) ==
    /\ pc[c] = "handshake"
    /\ iface' = [iface EXCEPT ![c] = check_auth_publickey(iface[c], u, k, catalog).iface]

\* The transport calls check_auth_password.
CheckAuthPassword(c) ==
    /\ \E u \in Usernames, pw \in Passwords : PasswordCall(c, u, pw)
    /\ UNCHANGED <<serverVars, connection_count, others, fleet, cfgVars, bootVars, connection_logs, error_log,
                   reply, handlerVars, sessionVars, relayVars>>

\* The transport calls check_auth_publickey.
CheckAuthPublickey(c) ==
    /\ \E u \in Usernames, k \in PKeys : PublickeyCall(c, u, k)
    /\ UNCHANGED <<serverVars, connection_count, others, fleet, cfgVars, bootVars, connection_logs, error_log,
                   reply, handlerVars, sessionVars, relayVars>>

\* Where the handler goes after transport.accept(timeout=30) returned
\* `chan` ("none" for a null channel) on an interface in state `ifc`.
AfterAccept(chan, ifc) ==
    IF chan = "none"
    THEN [pc |-> "close_transport", reason |-> "no_channel"]
    ELSE IF IsNone(ifc.authenticated_key)
    THEN [pc |-> "close_transport", reason |-> "auth_failed"]
    ELSE [pc |-> "route", reason |-> ""]

\* transport.accept(timeout=30) returns a channel or None.  The model lets
\* the transport deliver either on any interface state: the handler's own
\* checks decide what follows.
AcceptChannel(c) ==
    /\ pc[c] = "handshake"
    /\ \E chan \in {"none", "open"} :
         /\ channel' = [channel EXCEPT ![c] = chan]
         /\ pc' = [pc EXCEPT ![c] = AfterAccept(chan, iface[c]).pc]
         /\ exitReason' = [exitReason EXCEPT ![c] = AfterAccept(chan, iface[c]).reason]
    /\ reply' = [reply EXCEPT ![c] = NoReply]
    /\ UNCHANGED <<serverVars, connection_count, others, fleet, cfgVars, bootVars, connection_logs, error_log,
                   iface, source_ip, client_socket, transport, target,
                   sessionVars, relayVars>>

\* transport.start_server or transport.accept raises (SSHException).
HandshakeError(c) ==
    /\ pc[c] = "handshake"
    /\ pc' = [pc EXCEPT ![c] = "close_transport"]
    /\ exitReason' = [exitReason EXCEPT ![c] = "transport_error"]
    /\ reply' = [reply EXCEPT ![c] = NoReply]
    /\ UNCHANGED <<serverVars, connection_count, others, fleet, cfgVars, bootVars, connection_logs, error_log,
                   iface, source_ip, client_socket, transport, channel,
                   target, sessionVars, relayVars>>

\* The handler as it would be without `if not target: return`.
AfterRouteUnchecked(t) == [pc |-> "proxy", reason |-> ""]

\* Where the handler goes with the router's answer.
AfterRoute(t) ==
    IF IsNone(t)
    THEN [pc |-> "close_transport", reason |-> "no_route"]
    ELSE [pc |-> "proxy", reason |-> ""]

\* self.router.get_target(...); Database.log_connection_event may fail, and
\* then the event is dropped.
Route(c) ==
    /\ pc[c] = "route"
    /\ \E outcome \in LogOutcomes :
         LET r == get_target_recorded(iface[c].authenticated_key,
                                      Text(iface[c].username), source_ip[c],
                                      restricted_networks, outcome)
         IN  /\ target' = [target EXCEPT ![c] = r.target]
             /\ pc' = [pc EXCEPT ![c] = AfterRoute(r.target).pc]
             /\ exitReason' = [exitReason EXCEPT ![c] = AfterRoute(r.target).reason]
             /\ connection_logs' = [connection_logs EXCEPT ![c] = @ \o r.stored]
    /\ UNCHANGED <<serverVars, connection_count, others, fleet, cfgVars, bootVars, error_log, ifaceVars, source_ip,
                   client_socket, transport, channel, sessionVars, relayVars>>

\* ------------------------------------------------------------- proxy.py

\* What the target side lets setup_proxy_session do: the dial fails;
\* get_transport() returns nothing; open_channel raises; open_channel
\* returns nothing; or the session is registered and _start_relay starts
\* `started` of its three threads before Thread.start raises (3: all).
SetupOutcomes ==
    {[out |-> o, started |-> 3] :
        o \in {"dial_failed", "no_transport", "open_raises", "no_channel"}}
    \cup {[out |-> "ok", started |-> n] : n \in 0..3}

\* The outbound SSHClient after setup_proxy_session.
SetupTargetSsh(o) ==
    CASE o.out = "dial_failed" -> "none"
      [] o.out = "no_transport" -> "closed"
      [] o.out = "open_raises" -> "open"
      [] o.out = "no_channel" -> "closed"
      [] OTHER -> "open"

\* The threads _start_relay started.
StartedWorkers(n) ==
    [d \in Directions |->
        IF (d = "c2t" /\ n >= 1) \/ (d = "t2c" /\ n >= 2) THEN "alive" ELSE "none"]

\* The handle each close of _cleanup_connection works on.
HandleOf(stage) ==
    CASE stage = "close_client" -> "client_channel"
      [] stage = "close_target" -> "target_channel"
      [] stage = "close_ssh" -> "target_ssh"

\* _cleanup_connection as it would be with one try/except around the
\* three closes: a close that raises skips the ones after it.
AfterCloseAbort(stage, raised) ==
    IF raised THEN "log"
    ELSE CASE stage = "close_client" -> "close_target"
           [] stage = "close_target" -> "close_ssh"
           [] stage = "close_ssh" -> "log"

\* The stage of _cleanup_connection after the close of stage `stage`,
\* whether or not that close raised (each close has its own try/except).
AfterClose(stage, raised) ==
    CASE stage = "close_client" -> "close_target"
      [] stage = "close_target" -> "close_ssh"
      [] stage = "close_ssh" -> "log"

\* close() as it would be if an exception left the handle as it was.
ClosedUnlessRaised(handle, raised) == IF raised THEN handle ELSE "closed"

\* A handle after close() was called on it.  close() marks the handle
\* closed first and tells the peer afterwards; it is the telling that can
\* raise, so the handle is closed whether or not close() raised.
Closed(handle, raised) == "closed"

\* The closes of _cleanup_connection from stage `stage` on; st holds the
\* three handles, the closes attempted so far and the ones that raised;
\* raises says which close raises.
RECURSIVE CloseFrom(_, _, _)
CloseFrom(stage, st, raises) ==
    IF stage \notin {"close_client", "close_target", "close_ssh"}
    THEN st
    ELSE CloseFrom(AfterClose(stage, raises[HandleOf(stage)]),
                   [handles |-> [st.handles EXCEPT ![HandleOf(stage)] =
                                    Closed(@, raises[HandleOf(stage)])],
                    log |-> Append(st.log, HandleOf(stage)),
                    raised |-> IF raises[HandleOf(stage)]
                               THEN st.raised \cup {HandleOf(stage)}
                               ELSE st.raised],
                   raises)

\* The attributes of a Target (a dataclass with fields host, port, user).
TargetAttributes == {"host", "port", "user", "__post_init__"}

\* conn_info.get('target', {}).get('host', 'unknown') is evaluated on the
\* stored Target: an AttributeError unless Target has an attribute `get`.
LogClosedRaises == "get" \notin TargetAttributes

\* The registry after `del self.active_connections[connection_id]`, which
\* the AttributeError of the log call skips (the outer except catches it).
RegistryAfterCleanup(registry, id) ==
    IF LogClosedRaises THEN registry ELSE registry \ {id}

\* SSHProxy._cleanup_connection, run under connection_lock: the registry,
\* the handles and what it did (the closes attempted, the closure logged).
_cleanup_connection(registry, id, handles, raises) ==
    IF id \notin registry
    THEN [registry |-> registry, handles |-> handles, log |-> <<>>,
          raised |-> {}]
    ELSE LET st == CloseFrom("close_client",
                             [handles |-> handles, log |-> <<>>, raised |-> {}],
                             raises)
         IN  [registry |-> RegistryAfterCleanup(registry, id),
              handles |-> st.handles,
              raised |-> st.raised,
              log |-> IF LogClosedRaises THEN st.log
                      ELSE Append(st.log, "log_closed")]

\* Which closes raise: any of them may.
Raises == [{"client_channel", "target_channel", "target_ssh"} -> BOOLEAN]

\* The three handles of connection c's session.
Handles(c) ==
    [client_channel |-> channel[c], target_channel |-> target_channel[c],
     target_ssh |-> target_ssh[c]]

\* A line written with log_connection_error.
ErrorLine(ip, fingerprint, username, error) ==
    [source_ip |-> ip, fingerprint |-> fingerprint, username |-> username,
     error |-> error]

\* StartErrors as it would be if the handler did not call
\* log_connection_error after a failed start.
StartErrorsSetupOnly(o, ip, fingerprint, username, target_user) ==
    IF o.out = "open_raises"
    THEN <<ErrorLine(ip, fingerprint, target_user, "open_channel")>>
    ELSE <<>>

\* The lines log_connection_error writes when ProxySession.start() returns
\* False: the except branch of setup_proxy_session writes one when
\* open_channel raised (with the target's user), and the handler writes
\* "Failed to start proxy session" (with the client's username).
StartErrors(o, ip, fingerprint, username, target_user) ==
    (IF o.out = "open_raises"
     THEN <<ErrorLine(ip, fingerprint, target_user, "open_channel")>>
     ELSE <<>>)
    \o <<ErrorLine(ip, fingerprint, username, "Failed to start proxy session")>>

\* ProxySession(...).start(): SSHProxy.setup_proxy_session, from the dial to
\* the start of the relay threads (and, when a thread fails to start, the
\* _cleanup_connection of _start_relay's except branch); the handler gives
\* up when the result is False.
ProxyStart(c) ==
    /\ pc[c] = "proxy"
    /\ dialed' = [dialed EXCEPT ![c] = TRUE]
    /\ \E o \in SetupOutcomes, raises \in Raises :
         IF o.out = "ok"
         THEN LET registered == active_connections[c] \cup {SessionId(c)}
                  opened == [client_channel |-> channel[c],
                             target_channel |-> "open", target_ssh |-> "open"]
                  r == _cleanup_connection(registered, SessionId(c), opened, raises)
              IN  /\ worker' = [worker EXCEPT ![c] = StartedWorkers(o.started)]
                  /\ pc' = [pc EXCEPT ![c] = "wait"]
                  /\ IF o.started = 3
                     THEN /\ monitor' = [monitor EXCEPT ![c] = "watch"]
                          /\ active_connections' =
                                 [active_connections EXCEPT ![c] = registered]
                          /\ target_ssh' = [target_ssh EXCEPT ![c] = "open"]
                          /\ target_channel' = [target_channel EXCEPT ![c] = "open"]
                          /\ UNCHANGED <<channel, cleanup, closeLog, closeRaised>>
                     ELSE /\ active_connections' =
                                 [active_connections EXCEPT ![c] = r.registry]
                          /\ channel' = [channel EXCEPT ![c] = r.handles.client_channel]
                          /\ target_channel' =
                                 [target_channel EXCEPT ![c] = r.handles.target_channel]
                          /\ target_ssh' = [target_ssh EXCEPT ![c] = r.handles.target_ssh]
                          /\ closeLog' = [closeLog EXCEPT ![c] = @ \o r.log]
                          /\ closeRaised' = [closeRaised EXCEPT ![c] = @ \cup r.raised]
                          /\ cleanup' = [cleanup EXCEPT ![c] = "finished"]
                          /\ UNCHANGED monitor
                  /\ UNCHANGED <<exitReason, error_log>>
         ELSE /\ \A h \in DOMAIN raises : ~raises[h]
              /\ target_ssh' = [target_ssh EXCEPT ![c] = SetupTargetSsh(o)]
              /\ pc' = [pc EXCEPT ![c] = "close_transport"]
              /\ exitReason' = [exitReason EXCEPT ![c] = "proxy_failed"]
              /\ error_log' = [error_log EXCEPT ![c] =
                     @ \o StartErrors(o, source_ip[c],
                                      Get(iface[c].authenticated_key).fingerprint,
                                      Text(iface[c].username), Get(target[c]).user)]
              /\ UNCHANGED <<channel, target_channel, active_connections, worker,
                             monitor, cleanup, closeLog, closeRaised>>
    /\ UNCHANGED <<serverVars, connection_count, others, fleet, cfgVars, bootVars, connection_logs,
                   ifaceVars, source_ip, client_socket, transport, target,
                   relayVars>>

\* _relay_data: `if source_channel.closed or dest_channel.closed: break`
WorkerSeesClosed(c, d) ==
    /\ worker[c][d] = "alive"
    /\ channel[c] = "closed" \/ target_channel[c] = "closed"
    /\ worker' = [worker EXCEPT ![c][d] = "dead"]
    /\ ended' = [ended EXCEPT ![c][d] = "closed"]
    /\ UNCHANGED <<serverVars, connection_count, others, fleet, cfgVars, bootVars, connection_logs, error_log,
                   ifaceVars, handlerVars, dialed, target_ssh, target_channel,
                   active_connections, monitor, cleanup, closeLog,
                   closeRaised, rx, tx>>

\* _relay_data: recv returns b"" (`if not data: break`), or select/recv
\* raises.
WorkerIoEnd(c, d) ==
    /\ worker[c][d] = "alive"
    /\ worker' = [worker EXCEPT ![c][d] = "dead"]
    /\ \E how \in {"eof", "error"} : ended' = [ended EXCEPT ![c][d] = how]
    /\ UNCHANGED <<serverVars, connection_count, others, fleet, cfgVars, bootVars, connection_logs, error_log,
                   ifaceVars, handlerVars, dialed, target_ssh, target_channel,
                   active_connections, monitor, cleanup, closeLog,
                   closeRaised, rx, tx>>

\* _monitor_connection: the loop ends when either thread is not alive;
\* finally: self._cleanup_connection(connection_id)
MonitorCleanup(c) ==
    /\ monitor[c] = "watch"
    /\ ~(worker[c]["c2t"] = "alive" /\ worker[c]["t2c"] = "alive")
    /\ monitor' = [monitor EXCEPT ![c] = "done"]
    /\ cleanup' = [cleanup EXCEPT ![c] = "finished"]
    /\ \E raises \in Raises :
         LET r == _cleanup_connection(active_connections[c], SessionId(c),
                                      Handles(c), raises)
         IN  /\ active_connections' = [active_connections EXCEPT ![c] = r.registry]
             /\ channel' = [channel EXCEPT ![c] = r.handles.client_channel]
             /\ target_channel' = [target_channel EXCEPT ![c] = r.handles.target_channel]
             /\ target_ssh' = [target_ssh EXCEPT ![c] = r.handles.target_ssh]
             /\ closeLog' = [closeLog EXCEPT ![c] = @ \o r.log]
             /\ closeRaised' = [closeRaised EXCEPT ![c] = @ \cup r.raised]
    /\ UNCHANGED <<serverVars, connection_count, others, fleet, cfgVars, bootVars, connection_logs, error_log,
                   ifaceVars, pc, source_ip, client_socket, transport, target,
                   exitReason, dialed, worker, relayVars>>

\* ------------------------- server.py: the end of _handle_connection

\* The wait loop as it would be if it only watched transport.is_active().
WaitOverTransportOnly(chan, trans) == trans # "active"

\* `while not channel.closed: if transport.is_active(): wait else: break`
WaitOver(chan, trans) == chan = "closed" \/ trans # "active"

HandlerWaitExit(c) ==
    /\ pc[c] = "wait"
    /\ WaitOver(channel[c], transport[c])
    /\ pc' = [pc EXCEPT ![c] = "close_transport"]
    /\ exitReason' = [exitReason EXCEPT ![c] =
           IF channel[c] = "closed" THEN "closed" ELSE "inactive"]
    /\ UNCHANGED <<serverVars, connection_count, others, fleet, cfgVars, bootVars, connection_logs, error_log,
                   ifaceVars, source_ip, client_socket, transport, channel,
                   target, sessionVars, relayVars>>

\* finally: transport.close(), which closes the transport's channels.
CloseTransport(c) ==
    /\ pc[c] = "close_transport"
    /\ transport' = [transport EXCEPT ![c] = "closed"]
    /\ channel' = [channel EXCEPT ![c] = IF @ = "open" THEN "closed" ELSE @]
    /\ pc' = [pc EXCEPT ![c] = "finally"]
    /\ UNCHANGED <<serverVars, connection_count, others, fleet, cfgVars, bootVars, connection_logs, error_log,
                   ifaceVars, source_ip, client_socket, target, exitReason,
                   sessionVars, relayVars>>

\* The outer finally as it would be without `self.connection_count -= 1`.
FinallyKeepsCount(c) ==
    /\ pc[c] = "finally"
    /\ connection_count' = connection_count
    /\ client_socket' = [client_socket EXCEPT ![c] = "closed"]
    /\ pc' = [pc EXCEPT ![c] = "done"]
    /\ UNCHANGED <<serverVars, others, fleet, cfgVars, bootVars, connection_logs, error_log,
                   ifaceVars, source_ip, transport, channel, target,
                   exitReason, sessionVars, relayVars>>

\* finally: connection_count -= 1; client_socket.close()
Finally(c) ==
    /\ pc[c] = "finally"
    /\ connection_count' = connection_count - 1
    /\ client_socket' = [client_socket EXCEPT ![c] = "closed"]
    /\ pc' = [pc EXCEPT ![c] = "done"]
    /\ UNCHANGED <<serverVars, others, fleet, cfgVars, bootVars, connection_logs, error_log, ifaceVars, source_ip,
                   transport, channel, target, exitReason, sessionVars,
                   relayVars>>

\* ------------------------------------------------------- the two peers

\* The client closes its channel.
ClientClose(c) ==
    /\ channel[c] = "open"
    /\ pc[c] \in {"proxy", "wait"}
    /\ channel' = [channel EXCEPT ![c] = "closed"]
    /\ UNCHANGED <<serverVars, connection_count, others, fleet, cfgVars, bootVars, connection_logs, error_log,
                   ifaceVars, pc, source_ip, client_socket, transport, target,
                   exitReason, sessionVars, relayVars>>

\* The client's TCP connection is lost: the transport stops being active.
TransportDrop(c) ==
    /\ transport[c] = "active"
    /\ pc[c] = "wait"
    /\ transport' = [transport EXCEPT ![c] = "inactive"]
    /\ UNCHANGED <<serverVars, connection_count, others, fleet, cfgVars, bootVars, connection_logs, error_log,
                   ifaceVars, pc, source_ip, client_socket, channel, target,
                   exitReason, sessionVars, relayVars>>

\* The target closes its end of the session channel.
TargetClose(c) ==
    /\ target_channel[c] = "open"
    /\ target_channel' = [target_channel EXCEPT ![c] = "closed"]
    /\ UNCHANGED <<serverVars, connection_count, others, fleet, cfgVars, bootVars, connection_logs, error_log,
                   ifaceVars, handlerVars, dialed, target_ssh,
                   active_connections, worker, monitor, cleanup, closeLog,
                   closeRaised,
                   relayVars>>

\* ----------------------------------------------------------- the server

Next ==
    \/ ServerStart
    \/ Shutdown
    \/ AcceptLoopExit
    \/ \E c \in Conns :
         \/ Accept(c)
         \/ Increment(c)
         \/ CheckLimits(c)
         \/ CheckAuthPassword(c)
         \/ CheckAuthPublickey(c)
         \/ AcceptChannel(c)
         \/ HandshakeError(c)
         \/ Route(c)
         \/ ProxyStart(c)
         \/ MonitorCleanup(c)
         \/ HandlerWaitExit(c)
         \/ CloseTransport(c)
         \/ Finally(c)
         \/ ClientClose(c)
         \/ TransportDrop(c)
         \/ TargetClose(c)
         \/ \E d \in Directions : WorkerSeesClosed(c, d) \/ WorkerIoEnd(c, d)

Spec == Init /\ [][Next]_vars

\* ------------------------------------ the callbacks of one interface

\* The connection whose interface and relay are followed in detail: the
\* first one accepted.
Followed == CHOOSE c \in Conns : \A b \in Conns : c <= b

\* check_auth_password, with its result noted.
IfaceCheckAuthPassword ==
    /\ \E u \in Usernames, pw \in Passwords :
         /\ PasswordCall(Followed, u, pw)
         /\ Recorded(Followed, "check_auth_password", u, pw,
                     check_auth_password(iface[Followed], u, pw).ret,
                     check_auth_password(iface[Followed], u, pw).denied)
    /\ UNCHANGED <<serverVars, connection_count, others, fleet, cfgVars, bootVars, connection_logs, error_log,
                   handlerVars, sessionVars, relayVars>>

\* check_auth_publickey, with its result noted.
IfaceCheckAuthPublickey ==
    /\ \E u \in Usernames, k \in PKeys :
         /\ PublickeyCall(Followed, u, k)
         /\ Recorded(Followed, "check_auth_publickey", u, k,
                     check_auth_publickey(iface[Followed], u, k, catalog).ret,
                     check_auth_publickey(iface[Followed], u, k, catalog).denied)
    /\ UNCHANGED <<serverVars, connection_count, others, fleet, cfgVars, bootVars, connection_logs, error_log,
                   handlerVars, sessionVars, relayVars>>

\* get_allowed_auths, with its result noted.
IfaceGetAllowedAuths ==
    /\ pc[Followed] = "handshake"
    /\ \E u \in Usernames :
         Recorded(Followed, "get_allowed_auths", u, "",
                  get_allowed_auths(iface[Followed], u), None)
    /\ UNCHANGED <<serverVars, connection_count, others, fleet, cfgVars, bootVars, connection_logs, error_log,
                   iface, handlerVars, sessionVars, relayVars>>

\* check_channel_request, with its result noted.
IfaceCheckChannelRequest ==
    /\ pc[Followed] = "handshake"
    /\ \E kind \in ChannelKinds, chanid \in ChannelIds :
         Recorded(Followed, "check_channel_request", Text(iface[Followed].username),
                  kind, check_channel_request(kind, chanid), None)
    /\ UNCHANGED <<serverVars, connection_count, others, fleet, cfgVars, bootVars, connection_logs, error_log,
                   iface, handlerVars, sessionVars, relayVars>>

\* The server up to and during the handshake of the followed connection.
NextIface ==
    \/ ServerStart
    \/ Accept(Followed)
    \/ Increment(Followed)
    \/ CheckLimits(Followed)
    \/ IfaceCheckAuthPassword
    \/ IfaceCheckAuthPublickey
    \/ IfaceGetAllowedAuths
    \/ IfaceCheckChannelRequest

SpecIface == Init /\ [][NextIface]_vars

\* --------------------------------------- the bytes of one relay session

\* The next n bytes of a source stream of which `read` were read already;
\* a byte is named by its position in the stream.
Frame(read, n) == [i \in 1..n |-> Len(read) + i]

\* What dest_channel.send(data) can do: accept the first k >= 1 bytes and
\* return k (the send window decides k), or raise.
SendOutcomes(data) ==
    {[raised |-> FALSE, accepted |-> k] : k \in 1..Len(data)}
    \cup {[raised |-> TRUE, accepted |-> 0]}

\* The bytes the destination holds after `dest_channel.send(data)`, whose
\* return value _relay_data drops.
Delivered(sent, data, outcome) == sent \o SubSeq(data, 1, outcome.accepted)

\* One turn of the loop of _relay_data that relays: both channels are
\* open, select reports the source ready, recv returns 1..buffer_size
\* bytes, and send is called once with them.
RelayFrame(c, d) ==
    /\ worker[c][d] = "alive"
    /\ channel[c] = "open"
    /\ target_channel[c] = "open"
    /\ \E n \in 1..MaxFrame :
         /\ Len(rx[c][d]) + n <= MaxBytes
         /\ LET data == Frame(rx[c][d], n)
            IN  /\ rx' = [rx EXCEPT ![c][d] = @ \o data]
                /\ \E o \in SendOutcomes(data) :
                     /\ tx' = [tx EXCEPT ![c][d] = Delivered(@, data, o)]
                     /\ worker' = [worker EXCEPT ![c][d] =
                                       IF o.raised THEN "dead" ELSE "alive"]
                     /\ ended' = [ended EXCEPT ![c][d] =
                                      IF o.raised THEN "error" ELSE @]
    /\ UNCHANGED <<serverVars, connection_count, others, fleet, cfgVars, bootVars, connection_logs, error_log,
                   ifaceVars, handlerVars, dialed, target_ssh, target_channel,
                   active_connections, monitor, cleanup, closeLog,
                   closeRaised>>

\* Requests the client makes on its open channel while the session runs;
\* the transport's thread calls the interface.  What the call leaves of the
\* interface and of the channel is what the session goes on with.
ChannelCallback(c, op, arg, r) ==
    /\ pc[c] = "wait"
    /\ channel[c] = "open"
    /\ Recorded(c, op, Text(iface[c].username), arg, r.ret, None)
    /\ iface' = [iface EXCEPT ![c] = r.iface]
    /\ channel' = [channel EXCEPT ![c] = r.channel]
    /\ UNCHANGED <<serverVars, connection_count, others, fleet, cfgVars, bootVars, connection_logs, error_log,
                   pc, source_ip, client_socket, transport, target, exitReason,
                   sessionVars, relayVars>>

\* The client asks for a shell.
ShellRequest(c) ==
    ChannelCallback(c, "check_channel_shell_request", "",
                    check_channel_shell_request(iface[c], channel[c]))

\* The client asks for a command to be run.
ExecRequest(c) ==
    \E command \in Commands :
        ChannelCallback(c, "check_channel_exec_request", command,
                        check_channel_exec_request(iface[c], channel[c], command))

\* The client asks for a subsystem.
SubsystemRequest(c) ==
    \E name \in SubsystemNames :
        ChannelCallback(c, "check_channel_subsystem_request", name,
                        check_channel_subsystem_request(iface[c], channel[c], name))

\* The server with one session established: the followed connection
\* presented keyA, was routed to 10.0.0.5 and its relay threads run.
InitRelay ==
    /\ appRunning = TRUE
    /\ mainPc = "accepting"
    /\ running = TRUE
    /\ server_socket = "open"
    /\ connection_count = 1
    /\ others = NoOthers
    /\ fleet = NoFleet
    /\ \E dep \in Deployments :
         /\ RowA \in dep.catalog
         /\ catalog = dep.catalog
         /\ restricted_networks = dep.restricted_networks
    /\ connection_logs = [c \in Conns |-> <<>>]
    /\ error_log = [c \in Conns |-> <<>>]
    /\ Constructed
    /\ pc = [c \in Conns |-> IF c = Followed THEN "wait" ELSE "idle"]
    /\ source_ip = [c \in Conns |-> IF c = Followed THEN ClientIp(c) ELSE ""]
    /\ client_socket = [c \in Conns |-> IF c = Followed THEN "open" ELSE "none"]
    /\ transport = [c \in Conns |-> IF c = Followed THEN "active" ELSE "none"]
    /\ channel = [c \in Conns |-> IF c = Followed THEN "open" ELSE "none"]
    /\ iface = [c \in Conns |->
                   IF c = Followed
                   THEN check_auth_publickey(NewInterface(ClientIp(c)), "alice",
                                             "keyA", catalog).iface
                   ELSE NewInterface("")]
    /\ reply = [c \in Conns |-> NoReply]
    /\ target = [c \in Conns |->
                    IF c = Followed
                    THEN get_target(Some(RowA), "alice", ClientIp(c),
                                    restricted_networks).target
                    ELSE None]
    /\ exitReason = [c \in Conns |-> ""]
    /\ dialed = [c \in Conns |-> c = Followed]
    /\ target_ssh = [c \in Conns |-> IF c = Followed THEN "open" ELSE "none"]
    /\ target_channel = [c \in Conns |-> IF c = Followed THEN "open" ELSE "none"]
    /\ active_connections = [c \in Conns |->
                                IF c = Followed
                                THEN {ConnectionId(ClientIp(c), RowA.fingerprint)}
                                ELSE {}]
    /\ worker = [c \in Conns |->
                    IF c = Followed THEN StartedWorkers(3) ELSE NoWorkers]
    /\ monitor = [c \in Conns |-> IF c = Followed THEN "watch" ELSE "none"]
    /\ cleanup = [c \in Conns |-> "idle"]
    /\ closeLog = [c \in Conns |-> <<>>]
    /\ closeRaised = [c \in Conns |-> {}]
    /\ rx = [c \in Conns |-> NoBytes]
    /\ tx = [c \in Conns |-> NoBytes]
    /\ ended = [c \in Conns |-> [d \in Directions |-> ""]]

\* The session of the followed connection, from its start to its teardown.
NextRelay ==
    \/ \E d \in Directions :
         \/ RelayFrame(Followed, d)
         \/ WorkerSeesClosed(Followed, d)
         \/ WorkerIoEnd(Followed, d)
    \/ ClientClose(Followed)
    \/ TargetClose(Followed)
    \/ MonitorCleanup(Followed)
    \/ ShellRequest(Followed)
    \/ ExecRequest(Followed)
    \/ SubsystemRequest(Followed)

SpecRelay == InitRelay /\ [][NextRelay]_vars

\* ------------------------------------------- the registry, torn down

\* _cleanup_connection was run on connection c's session fewer than
\* MaxCleanups times.
CleanupsLeft(c) == Len(closeLog[c]) < 3 * MaxCleanups

\* SSHProxy.cleanup_all_connections, called on the SSHProxy of connection
\* c's session: _cleanup_connection for every id in the registry.
CleanupAllConnections(c) ==
    /\ dialed[c]
    /\ CleanupsLeft(c)
    /\ \E raises \in Raises :
         LET ids == active_connections[c]
             r == _cleanup_connection(active_connections[c], SessionId(c),
                                      Handles(c), raises)
         IN  IF SessionId(c) \in ids
             THEN /\ active_connections' = [active_connections EXCEPT ![c] = r.registry]
                  /\ channel' = [channel EXCEPT ![c] = r.handles.client_channel]
                  /\ target_channel' = [target_channel EXCEPT ![c] = r.handles.target_channel]
                  /\ target_ssh' = [target_ssh EXCEPT ![c] = r.handles.target_ssh]
                  /\ closeLog' = [closeLog EXCEPT ![c] = @ \o r.log]
                  /\ closeRaised' = [closeRaised EXCEPT ![c] = @ \cup r.raised]
                  /\ cleanup' = [cleanup EXCEPT ![c] = "finished"]
             ELSE /\ \A h \in DOMAIN raises : ~raises[h]
                  /\ UNCHANGED <<active_connections, channel, target_channel,
                                 target_ssh, closeLog, closeRaised, cleanup>>
    /\ UNCHANGED <<serverVars, connection_count, others, fleet, cfgVars, bootVars,
                   connection_logs, error_log, ifaceVars, pc, source_ip,
                   client_socket, transport, target, exitReason, dialed, worker,
                   monitor, relayVars>>

\* An established session whose teardown is asked for by its monitor and
\* by callers of cleanup_all_connections, in any order.
NextTeardown ==
    \/ \E d \in Directions :
         \/ WorkerSeesClosed(Followed, d)
         \/ WorkerIoEnd(Followed, d)
    \/ ClientClose(Followed)
    \/ TargetClose(Followed)
    \/ MonitorCleanup(Followed)
    \/ CleanupAllConnections(Followed)

SpecTeardown == InitRelay /\ [][NextTeardown]_vars

\* ----------------------------------------- two sessions, live at once

\* ProxySession.__init__ as it would be if every session ran on one
\* SSHProxy held by the server.
ProxyOfShared(s) == "shared"

\* ProxySession.__init__: `self.proxy = SSHProxy()`, an SSHProxy (registry
\* and lock) of the session's own.
ProxyOf(s) == s

\* The keys of a registry.
Keys(registry) == {e.id : e \in registry}

\* `self.active_connections[connection_id] = {...}`: the entry of session
\* s is stored under id, in place of whatever was stored there.
Registered(registry, id, s) ==
    {e \in registry : e.id # id} \cup {[id |-> id, owner |-> s]}

\* ProxySession(channel, target, source_ip, fingerprint).start() for
\* session s: the handles are opened and the session is registered on its
\* SSHProxy under source_ip:fingerprint[:8].
FleetStart(s) ==
    /\ fleet.sessions[s].id = ""
    /\ \E ip \in SourceIps, fingerprint \in FleetFingerprints :
         LET p == ProxyOf(s)
             id == ConnectionId(ip, fingerprint)
         IN  fleet' =
               [sessions |-> [fleet.sessions EXCEPT ![s] =
                    [proxy |-> p, id |-> id, torn |-> FALSE,
                     handles |-> [client_channel |-> "open",
                                  target_channel |-> "open",
                                  target_ssh |-> "open"]]],
                registries |-> [fleet.registries EXCEPT ![p] =
                    Registered(@, id, s)]]
    /\ UNCHANGED <<serverVars, connection_count, others, cfgVars, bootVars,
                   connection_logs, error_log, ifaceVars, handlerVars,
                   sessionVars, relayVars>>

\* The monitor of session s runs _cleanup_connection(connection_id) on the
\* session's SSHProxy: the handles stored under the id are closed.
FleetCleanup(s) ==
    /\ fleet.sessions[s].id # ""
    /\ ~fleet.sessions[s].torn
    /\ \E raises \in Raises :
         LET p == fleet.sessions[s].proxy
             id == fleet.sessions[s].id
             registry == fleet.registries[p]
             torn == [fleet.sessions EXCEPT ![s].torn = TRUE]
         IN  IF id \in Keys(registry)
             THEN LET owner == (CHOOSE e \in registry : e.id = id).owner
                      r == _cleanup_connection(Keys(registry), id,
                                               fleet.sessions[owner].handles,
                                               raises)
                  IN  fleet' =
                        [sessions |-> [torn EXCEPT ![owner].handles = r.handles],
                         registries |-> [fleet.registries EXCEPT ![p] =
                             {e \in registry : e.id \in r.registry}]]
             ELSE fleet' = [fleet EXCEPT !.sessions = torn]
    /\ UNCHANGED <<serverVars, connection_count, others, cfgVars, bootVars,
                   connection_logs, error_log, ifaceVars, handlerVars,
                   sessionVars, relayVars>>

\* Two sessions started and torn down in any order.
NextFleet ==
    \E s \in Sessions :
        \/ FleetStart(s)
        \/ FleetCleanup(s)

SpecFleet == Init /\ [][NextFleet]_vars

\* ------------------------------------- the catalog and the router, called

\* A server object built on some database file and configuration, before
\* it listens.
InitCatalog ==
    /\ appRunning = TRUE
    /\ mainPc = "created"
    /\ running = FALSE
    /\ server_socket = "none"
    /\ connection_count = 0
    /\ others = NoOthers
    /\ fleet = NoFleet
    /\ catalog \in Catalogs
    /\ restricted_networks \in NetworkLists
    /\ connection_logs = [c \in Conns |-> <<>>]
    /\ error_log = [c \in Conns |-> <<>>]
    /\ Constructed
    /\ pc = [c \in Conns |-> "idle"]
    /\ source_ip = [c \in Conns |-> ""]
    /\ client_socket = [c \in Conns |-> "none"]
    /\ transport = [c \in Conns |-> "none"]
    /\ channel = [c \in Conns |-> "none"]
    /\ iface = [c \in Conns |-> NewInterface("")]
    /\ reply = [c \in Conns |-> NoReply]
    /\ target = [c \in Conns |-> None]
    /\ exitReason = [c \in Conns |-> ""]
    /\ dialed = [c \in Conns |-> FALSE]
    /\ target_ssh = [c \in Conns |-> "none"]
    /\ target_channel = [c \in Conns |-> "none"]
    /\ active_connections = [c \in Conns |-> {}]
    /\ worker = [c \in Conns |-> NoWorkers]
    /\ monitor = [c \in Conns |-> "none"]
    /\ cleanup = [c \in Conns |-> "idle"]
    /\ closeLog = [c \in Conns |-> <<>>]
    /\ closeRaised = [c \in Conns |-> {}]
    /\ rx = [c \in Conns |-> NoBytes]
    /\ tx = [c \in Conns |-> NoBytes]
    /\ ended = [c \in Conns |-> [d \in Directions |-> ""]]

\* One call of a function of the catalog or of the router, its arguments
\* and result noted; a behaviour makes one call.
Called(op, username, arg, ret) ==
    /\ reply[Followed].op = "none"
    /\ Recorded(Followed, op, username, arg, ret, None)

\* Database.find_ssh_key(fingerprint)
CatalogFind ==
    /\ \E fp \in Fingerprints :
         Called("find_ssh_key", "", fp, find_ssh_key(catalog, fp))
    /\ UNCHANGED <<serverVars, connection_count, others, fleet, cfgVars, bootVars, connection_logs, error_log,
                   iface, handlerVars, sessionVars, relayVars>>

\* Database.get_target_for_key(fingerprint)
CatalogTargetForKey ==
    /\ \E fp \in Fingerprints :
         Called("get_target_for_key", "", fp, get_target_for_key(catalog, fp))
    /\ UNCHANGED <<serverVars, connection_count, others, fleet, cfgVars, bootVars, connection_logs, error_log,
                   iface, handlerVars, sessionVars, relayVars>>

\* SSHKey objects the router is handed: None, and one per row (a dataclass
\* holds whatever its fields are set to).
Bindings == {None} \cup {Some(r) : r \in catalog}

\* SSHRouter.get_target(ssh_key, username, source_ip); the database may
\* fail to store the event.
RouterGetTarget ==
    /\ \E k \in Bindings, u \in Usernames, ip \in SourceIps,
          outcome \in LogOutcomes :
         LET r == get_target_recorded(k, u, ip, restricted_networks, outcome)
         IN  /\ Called("get_target", u, k, r.target)
             /\ target' = [target EXCEPT ![Followed] = r.target]
             /\ source_ip' = [source_ip EXCEPT ![Followed] = ip]
             /\ connection_logs' = [connection_logs EXCEPT ![Followed] =
                    @ \o r.stored]
    /\ UNCHANGED <<serverVars, connection_count, others, fleet, cfgVars, bootVars, error_log, iface, pc,
                   client_socket, transport, channel, exitReason,
                   sessionVars, relayVars>>

\* SSHKeyAuth.authenticate_key(username, public_key, source_ip), on a
\* database that answers, fails or raises.
CatalogAuthenticate ==
    /\ \E u \in Usernames, k \in AuthKeys, ip \in SourceIps,
          outcome \in LookupOutcomes :
         Called("authenticate_key", u, k,
                authenticate_key_on(u, k, ip,
                    Lookup(catalog, get_key_fingerprint(k), outcome)))
    /\ UNCHANGED <<serverVars, connection_count, others, fleet, cfgVars, bootVars,
                   connection_logs, error_log, iface, handlerVars, sessionVars,
                   relayVars>>

NextCatalog ==
    \/ CatalogFind
    \/ CatalogTargetForKey
    \/ RouterGetTarget
    \/ CatalogAuthenticate

SpecCatalog == InitCatalog /\ [][NextCatalog]_vars

\* ------------------------------------------------ the catalog, written to

\* A process that has not accepted any connection: no handler, no session.
Unstarted ==
    /\ appRunning = TRUE
    /\ running = FALSE
    /\ server_socket = "none"
    /\ connection_count = 0
    /\ others = NoOthers
    /\ fleet = NoFleet
    /\ connection_logs = [c \in Conns |-> <<>>]
    /\ error_log = [c \in Conns |-> <<>>]
    /\ pc = [c \in Conns |-> "idle"]
    /\ source_ip = [c \in Conns |-> ""]
    /\ client_socket = [c \in Conns |-> "none"]
    /\ transport = [c \in Conns |-> "none"]
    /\ channel = [c \in Conns |-> "none"]
    /\ iface = [c \in Conns |-> NewInterface("")]
    /\ reply = [c \in Conns |-> NoReply]
    /\ target = [c \in Conns |-> None]
    /\ exitReason = [c \in Conns |-> ""]
    /\ dialed = [c \in Conns |-> FALSE]
    /\ target_ssh = [c \in Conns |-> "none"]
    /\ target_channel = [c \in Conns |-> "none"]
    /\ active_connections = [c \in Conns |-> {}]
    /\ worker = [c \in Conns |-> NoWorkers]
    /\ monitor = [c \in Conns |-> "none"]
    /\ cleanup = [c \in Conns |-> "idle"]
    /\ closeLog = [c \in Conns |-> <<>>]
    /\ closeRaised = [c \in Conns |-> {}]
    /\ rx = [c \in Conns |-> NoBytes]
    /\ tx = [c \in Conns |-> NoBytes]
    /\ ended = [c \in Conns |-> [d \in Directions |-> ""]]

\* A Database on a new file (the schema only) or on the file of a
\* deployment.
InitStore ==
    /\ Unstarted
    /\ mainPc = "created"
    /\ Constructed
    /\ \E dep \in Deployments :
         /\ catalog \in {{}, dep.catalog}
         /\ restricted_networks = dep.restricted_networks

\* Database.add_ssh_key(ssh_key), its argument and result noted.
StoreAdd ==
    /\ \E b \in KeyBindings, writable \in BOOLEAN :
         LET r == add_ssh_key(catalog, b, writable)
         IN  /\ catalog' = r.catalog
             /\ Recorded(Followed, "add_ssh_key", "", b, r.ret, None)
    /\ UNCHANGED <<serverVars, connection_count, others, fleet, restricted_networks, bootVars,
                   connection_logs, error_log, iface, handlerVars, sessionVars,
                   relayVars>>

\* Database.find_ssh_key(fingerprint) on the table as it is now, its
\* argument and result noted.
StoreFind ==
    /\ \E fp \in Fingerprints \cup {b.fingerprint : b \in KeyBindings} :
         Recorded(Followed, "find_ssh_key", "", fp, find_ssh_key(catalog, fp), None)
    /\ UNCHANGED <<serverVars, connection_count, others, fleet, cfgVars, bootVars,
                   connection_logs, error_log, iface, handlerVars, sessionVars,
                   relayVars>>

NextStore ==
    \/ StoreAdd
    \/ StoreFind

SpecStore == InitStore /\ [][NextStore]_vars

\* ------------------------------------------------- the server, built

\* A process on some configuration and host key file, before
\* create_server().
InitBoot ==
    /\ Unstarted
    /\ mainPc = "new"
    /\ config \in Configs
    /\ key_file \in KeyFiles
    /\ host_key = None
    /\ boots = <<>>
    /\ \E dep \in Deployments :
         /\ catalog = dep.catalog
         /\ restricted_networks = dep.restricted_networks

\* create_server(): BastionSSHServer.__init__, which ends with
\* _load_host_key; a process, or the next one after it, on the same key
\* file.
CreateServer ==
    /\ mainPc \in {"new", "created", "failed"}
    /\ Len(boots) < MaxBoots
    /\ \E saved \in BOOLEAN :
         LET r == _load_host_key(key_file, RsaKey(Len(boots) + 1), saved)
         IN  /\ host_key' = r.host_key
             /\ key_file' = r.key_file
             /\ boots' = Append(boots, [host_key |-> r.host_key,
                                        generated |-> r.generated])
    /\ mainPc' = "created"
    /\ running' = FALSE
    /\ server_socket' = "none"
    /\ UNCHANGED <<appRunning, connection_count, others, fleet, cfgVars, config,
                   connection_logs, error_log, ifaceVars, handlerVars,
                   sessionVars, relayVars>>

\* The server from its construction to its first accepted connection.
NextBoot ==
    \/ CreateServer
    \/ ServerStart
    \/ Accept(Followed)

SpecBoot == InitBoot /\ [][NextBoot]_vars

\* ------------------------------------------- start() and the signals

\* A process whose main thread has built the server, set BastionMain.running
\* and installed the signal handlers, and is about to call server.start().
InitSignal ==
    /\ Unstarted
    /\ mainPc = "created"
    /\ config \in Configs
    /\ key_file = Some(RsaKey(0))
    /\ host_key = Some(RsaKey(0))
    /\ boots = <<[host_key |-> Some(RsaKey(0)), generated |-> FALSE]>>
    /\ \E dep \in Deployments :
         /\ catalog = dep.catalog
         /\ restricted_networks = dep.restricted_networks

\* start(): self.config.validate(), then socket.socket(...) and setsockopt.
\* When validate raises, start logs, runs stop() in its finally and raises.
StartSocket ==
    /\ mainPc = "created"
    /\ IF IsNone(validate(config))
       THEN /\ mainPc' = "socket"
            /\ server_socket' = "open"
            /\ UNCHANGED running
       ELSE /\ mainPc' = "failed"
            /\ server_socket' = stop_socket(server_socket)
            /\ running' = stop_running
    /\ UNCHANGED <<appRunning, connection_count, others, fleet, cfgVars, bootVars,
                   connection_logs, error_log, ifaceVars, handlerVars,
                   sessionVars, relayVars>>

\* start(): bind and listen; on a socket that stop() has closed they raise,
\* and start logs, runs stop() in its finally and raises.
StartBind ==
    /\ mainPc = "socket"
    /\ IF server_socket = "open"
       THEN /\ mainPc' = "listening"
            /\ UNCHANGED <<server_socket, running>>
       ELSE /\ mainPc' = "failed"
            /\ server_socket' = stop_socket(server_socket)
            /\ running' = stop_running
    /\ UNCHANGED <<appRunning, connection_count, others, fleet, cfgVars, bootVars,
                   connection_logs, error_log, ifaceVars, handlerVars,
                   sessionVars, relayVars>>

\* start(): self.running = True, and the accept loop is entered.
StartRunning ==
    /\ mainPc = "listening"
    /\ running' = TRUE
    /\ mainPc' = "accepting"
    /\ UNCHANGED <<appRunning, server_socket, connection_count, others, fleet, cfgVars,
                   bootVars, connection_logs, error_log, ifaceVars, handlerVars,
                   sessionVars, relayVars>>

\* BastionMain.shutdown, run by the signal handler in the main thread
\* while start() has not reached its accept loop.
EarlyShutdown ==
    /\ appRunning
    /\ mainPc \in {"created", "socket", "listening"}
    /\ appRunning' = FALSE
    /\ running' = stop_running
    /\ server_socket' = stop_socket(server_socket)
    /\ UNCHANGED <<mainPc, connection_count, others, fleet, cfgVars, bootVars,
                   connection_logs, error_log, ifaceVars, handlerVars,
                   sessionVars, relayVars>>

\* start() statement by statement, and a signal at any point of it.
NextSignal ==
    \/ StartSocket
    \/ StartBind
    \/ StartRunning
    \/ EarlyShutdown
    \/ Shutdown
    \/ AcceptLoopExit

\* The main thread keeps running; the signal owes nothing.
SpecSignal ==
    /\ InitSignal
    /\ [][NextSignal]_vars
    /\ WF_vars(StartSocket)
    /\ WF_vars(StartBind)
    /\ WF_vars(StartRunning)
    /\ WF_vars(AcceptLoopExit)

\* ------------------------------------------ the counter of connections

\* The most handlers of other connections that are between their
\* increment and their decrement of connection_count at once.
MaxOthers == MAX_CONNECTIONS_PER_IP * 10 + 1

\* The handlers of the other connections that have incremented
\* connection_count and not yet decremented it.
OthersCounted(o) == o.limit + o.served + o.refused

\* The handler of another connection starts, at any time:
\* `with self.connection_lock: self.connection_count += 1`.
CrowdArrives ==
    /\ mainPc = "accepting"
    /\ running
    /\ OthersCounted(others) < MaxOthers
    /\ connection_count' = connection_count + 1
    /\ others' = [others EXCEPT !.limit = @ + 1]
    /\ UNCHANGED <<serverVars, fleet, cfgVars, bootVars, connection_logs, error_log, ifaceVars,
                   handlerVars, sessionVars, relayVars>>

\* The handler of another connection makes its cap check: it reads
\* connection_count (without the lock) and is served or refused.
CrowdChecks ==
    /\ others.limit > 0
    /\ others' = IF _check_connection_limits(connection_count)
                 THEN [others EXCEPT !.limit = @ - 1, !.served = @ + 1]
                 ELSE [others EXCEPT !.limit = @ - 1, !.refused = @ + 1]
    /\ UNCHANGED <<serverVars, connection_count, fleet, cfgVars, bootVars, connection_logs,
                   error_log, ifaceVars, handlerVars, sessionVars, relayVars>>

\* CrowdLeaves as it would be if the early return of a refused connection
\* skipped the outer finally.
CrowdLeavesRefusedKeepsCount ==
    /\ \E stage \in {"served", "refused"} :
         /\ others[stage] > 0
         /\ others' = [others EXCEPT ![stage] = @ - 1]
         /\ connection_count' =
                IF stage = "refused" THEN connection_count ELSE connection_count - 1
    /\ UNCHANGED <<serverVars, fleet, cfgVars, bootVars, connection_logs, error_log, ifaceVars,
                   handlerVars, sessionVars, relayVars>>

\* The handler of another connection, served or refused, reaches its outer
\* finally: `with self.connection_lock: self.connection_count -= 1`.
CrowdLeaves ==
    /\ \E stage \in {"served", "refused"} :
         /\ others[stage] > 0
         /\ others' = [others EXCEPT ![stage] = @ - 1]
    /\ connection_count' = connection_count - 1
    /\ UNCHANGED <<serverVars, fleet, cfgVars, bootVars, connection_logs, error_log, ifaceVars,
                   handlerVars, sessionVars, relayVars>>

\* The handler of another connection starts before the followed one is
\* accepted.
OtherArrives ==
    /\ pc[Followed] = "idle"
    /\ connection_count < MaxOthers
    /\ CrowdArrives

\* The handler of another connection makes its cap check before the
\* followed one is accepted.
OtherChecks ==
    /\ pc[Followed] = "idle"
    /\ CrowdChecks

\* The handler of another connection ends before the followed one is
\* accepted.
OtherLeaves ==
    /\ pc[Followed] = "idle"
    /\ connection_count > 0
    /\ CrowdLeaves

\* The followed connection arrives while any number of others are being
\* handled; it is refused or served up to the handshake.
NextCap ==
    \/ ServerStart
    \/ OtherArrives
    \/ OtherChecks
    \/ OtherLeaves
    \/ Accept(Followed)
    \/ Increment(Followed)
    \/ CheckLimits(Followed)
    \/ HandshakeError(Followed)
    \/ CloseTransport(Followed)
    \/ Finally(Followed)

SpecCap == Init /\ [][NextCap]_vars

\* The followed connection among the handlers of the others, every one of
\* them taking its steps at any time.
NextCrowd ==
    \/ ServerStart
    \/ CrowdArrives
    \/ CrowdChecks
    \/ CrowdLeaves
    \/ Accept(Followed)
    \/ Increment(Followed)
    \/ CheckLimits(Followed)
    \/ HandshakeError(Followed)
    \/ CloseTransport(Followed)
    \/ Finally(Followed)

SpecCrowd == Init /\ [][NextCrowd]_vars

\* ------------------------------------------------ the server, scheduled

\* Every thread of the server that can take a step eventually takes one;
\* the peers (clients, targets, the operator's signal) owe nothing.
Fairness ==
    /\ WF_vars(ServerStart)
    /\ WF_vars(AcceptLoopExit)
    /\ \A c \in Conns :
         /\ WF_vars(Increment(c))
         /\ WF_vars(CheckLimits(c))
         /\ WF_vars(AcceptChannel(c))
         /\ WF_vars(Route(c))
         /\ WF_vars(ProxyStart(c))
         /\ WF_vars(MonitorCleanup(c))
         /\ WF_vars(HandlerWaitExit(c))
         /\ WF_vars(CloseTransport(c))
         /\ WF_vars(Finally(c))
         /\ \A d \in Directions : WF_vars(WorkerSeesClosed(c, d))

SpecLive == Spec /\ Fairness

\* ------------------------------------------------------------ properties

\* The binding the interface of connection c stashed.
Binding(c) == Get(iface[c].authenticated_key)

\* host is an IP literal inside one of the configured networks.
InRestricted(host, nets) ==
    /\ ~IsNone(ip_address(host))
    /\ \E i \in 1..Len(nets) :
         /\ ~IsNone(ip_network(nets[i]))
         /\ NetworkContains(Get(ip_network(nets[i])), Get(ip_address(host)))

\* Connection c has a session: setup_proxy_session registered it.
HasSession(c) == target_channel[c] # "none"

\* C1: no outbound dial is attempted and no relay session exists for a
\* binding whose target_host is an IP literal inside a configured restricted
\* CIDR (its network address included): get_target returns None for it and
\* the handler never reaches ProxySession.start.
C1_NoSessionToRestricted ==
    /\ \A r \in catalog :
         InRestricted(r.target_host, restricted_networks)
            => \A u \in Usernames, ip \in SourceIps :
                 IsNone(get_target(Some(r), u, ip, restricted_networks).target)
    /\ \A c \in Conns :
         (dialed[c] \/ pc[c] = "proxy" \/ HasSession(c))
            => ~InRestricted(Binding(c).target_host, restricted_networks)

\* A handler that authenticated the binding to 10.10.254.0, the network
\* address of 10.10.254.0/24, ended on "no route" without dialling.
C1_Witness ==
    \E c \in Conns :
        /\ pc[c] = "done"
        /\ exitReason[c] = "no_route"
        /\ ~IsNone(iface[c].authenticated_key)
        /\ Binding(c).target_host = "10.10.254.0"
        /\ ~dialed[c]

\* C2: create_outbound_connection is called only after a channel was
\* accepted, check_auth_publickey stashed a binding and the router returned
\* a Target; a handler that gave up on a null channel, a missing binding or
\* a null route never dialled.
C2_DialOnlyAfterAuthAndRoute ==
    \A c \in Conns :
        /\ dialed[c] =>
             /\ channel[c] # "none"
             /\ ~IsNone(iface[c].authenticated_key)
             /\ ~IsNone(target[c])
        /\ exitReason[c] \in {"no_channel", "auth_failed", "no_route"} => ~dialed[c]

\* A handler dialled its target, after a channel, a binding and a route.
C2_Witness ==
    \E c \in Conns :
        /\ dialed[c]
        /\ channel[c] # "none"
        /\ ~IsNone(iface[c].authenticated_key)
        /\ ~IsNone(target[c])

\* The catalog holds an enabled row for the fingerprint of key k.
EnabledRowFor(k) ==
    \E r \in catalog : r.fingerprint = get_key_fingerprint(k) /\ r.enabled

C4_ExitedHandlerLeavesNothing ==
    \A c \in Conns :
        (pc[c] = "done" /\ HasSession(c)) =>
            /\ active_connections[c] = {}
            /\ channel[c] = "closed"
            /\ target_channel[c] = "closed"
            /\ target_ssh[c] = "closed"

\* One of the two relay workers of connection c is no longer running.
WorkerGone(c) == ~(worker[c]["c2t"] = "alive" /\ worker[c]["t2c"] = "alive")

\* C5: when a relay worker of a supervised session is gone, teardown
\* follows; teardown starts only once a relay worker is gone (or a relay thread
\* failed to start), and it attempts the closes of the client channel, the
\* target channel and the outbound client, in that order, whichever of
\* them raise.
C5_TeardownClosesAllInOrder ==
    /\ [](\A c \in Conns :
            /\ cleanup[c] = "finished" =>
                 /\ Len(closeLog[c]) >= 3
                 /\ SubSeq(closeLog[c], 1, 3) =
                        <<"client_channel", "target_channel", "target_ssh">>
            /\ monitor[c] = "done" => WorkerGone(c))
    /\ \A c \in Conns :
         (monitor[c] = "watch" /\ WorkerGone(c)) ~> (cleanup[c] = "finished")

\* The monitor tore a session down after a worker left, the close of the
\* client channel raised, and all three closes were attempted.
C5_Witness ==
    \E c \in Conns :
        /\ monitor[c] = "done"
        /\ cleanup[c] = "finished"
        /\ "client_channel" \in closeRaised[c]
        /\ Len(closeLog[c]) >= 3

\* C6: after _cleanup_connection ran for a registered session, its
\* connection_id is no longer a key of active_connections.
C6_CleanupRemovesEntry ==
    \A c \in Conns :
        cleanup[c] = "finished" => SessionId(c) \notin active_connections[c]

\* b is a prefix of a.
IsPrefix(b, a) == Len(b) <= Len(a) /\ SubSeq(a, 1, Len(b)) = b

\* C7: in each relay direction the bytes delivered to the destination are
\* a prefix of the bytes read from the source, and all of them once the
\* frame was handed over, unless the worker ended on an I/O error: no byte
\* is dropped, duplicated or reordered.
C7_RelayDeliversPrefix ==
    \A c \in Conns, d \in Directions :
        /\ IsPrefix(tx[c][d], rx[c][d])
        /\ ended[c][d] # "error" => tx[c][d] = rx[c][d]

\* Every session is torn down: handles closed, registry empty.
AllTornDown ==
    \A c \in Conns :
        HasSession(c) =>
            /\ active_connections[c] = {}
            /\ channel[c] = "closed"
            /\ target_channel[c] = "closed"
            /\ target_ssh[c] = "closed"

\* C8: a shutdown sets running to False and closes the listening socket,
\* and from then on every live session is eventually torn down: its
\* client channel, target channel and outbound client closed and the
\* registry empty.
C8_ShutdownTearsDownSessions ==
    /\ [](~appRunning => (~running /\ server_socket = "closed"))
    /\ ~appRunning ~> AllTornDown

\* C9: get_allowed_auths returns exactly "publickey" for every username, in
\* every state of the interface.
C9_OnlyPublickeyAdvertised ==
    \A c \in Conns :
        /\ \A u \in Usernames : get_allowed_auths(iface[c], u) = "publickey"
        /\ reply[c].op = "get_allowed_auths" => reply[c].ret = "publickey"

\* get_allowed_auths answered both before and after a key was accepted.
C9_Witness ==
    \E c \in Conns :
        /\ reply[c].op = "get_allowed_auths"
        /\ reply[c].ret = "publickey"
        /\ ~IsNone(iface[c].authenticated_key)

\* C10: check_auth_password returns AUTH_FAILED for every username and
\* password in every state and leaves the stashed binding and username as
\* they were, so no password attempt makes authenticated_key non-null.
C10_PasswordAlwaysFails ==
    \A c \in Conns :
        /\ \A u \in Usernames, pw \in Passwords :
             /\ check_auth_password(iface[c], u, pw).ret = AUTH_FAILED
             /\ check_auth_password(iface[c], u, pw).iface = iface[c]
        /\ reply[c].op = "check_auth_password" => reply[c].ret = AUTH_FAILED

\* A password was refused on an interface that holds an accepted binding,
\* and the binding is still there.
C10_Witness ==
    \E c \in Conns :
        /\ reply[c].op = "check_auth_password"
        /\ reply[c].ret = AUTH_FAILED
        /\ ~IsNone(iface[c].authenticated_key)

\* C11: check_channel_request answers OPEN_SUCCEEDED exactly when the
\* requested kind is 'session', and
\* OPEN_FAILED_ADMINISTRATIVELY_PROHIBITED for every other kind.
C11_OnlySessionChannels ==
    /\ \A kind \in ChannelKinds, chanid \in ChannelIds :
         /\ check_channel_request(kind, chanid) = OPEN_SUCCEEDED <=> kind = "session"
         /\ kind # "session" =>
              check_channel_request(kind, chanid) =
                  OPEN_FAILED_ADMINISTRATIVELY_PROHIBITED
    /\ \A c \in Conns :
         reply[c].op = "check_channel_request" =>
             /\ reply[c].ret = OPEN_SUCCEEDED <=> reply[c].arg = "session"
             /\ reply[c].ret \in {OPEN_SUCCEEDED, OPEN_FAILED_ADMINISTRATIVELY_PROHIBITED}

\* A request for a kind that only begins with 'session' was prohibited.
C11_Witness ==
    \E c \in Conns :
        /\ reply[c].op = "check_channel_request"
        /\ reply[c].arg = "session@openssh.com"
        /\ reply[c].ret = OPEN_FAILED_ADMINISTRATIVELY_PROHIBITED

\* The interface states a request can meet on connection c: the one it has
\* and the one it had before any key was accepted.
IfaceStates(c) == {iface[c], NewInterface(source_ip[c])}

\* C12: shell requests and exec requests are refused in every state of the
\* interface, for every command, with or without an accepted key; the
\* refusal leaves the channel as it is and the stashed binding and username
\* unchanged, so the session goes on relaying.
C12_ShellAndExecRefused ==
    \A c \in Conns :
        /\ \A ifc \in IfaceStates(c) :
             /\ check_channel_shell_request(ifc, channel[c]) =
                    [ret |-> FALSE, iface |-> ifc, channel |-> channel[c]]
             /\ \A command \in Commands :
                  check_channel_exec_request(ifc, channel[c], command) =
                      [ret |-> FALSE, iface |-> ifc, channel |-> channel[c]]
        /\ reply[c].op \in {"check_channel_shell_request", "check_channel_exec_request"}
             => reply[c].ret = FALSE

\* An exec request was refused on a session that has relayed bytes and
\* whose channel is open and both workers running.
C12_Witness ==
    \E c \in Conns :
        /\ reply[c].op = "check_channel_exec_request"
        /\ reply[c].ret = FALSE
        /\ channel[c] = "open"
        /\ worker[c]["c2t"] = "alive" /\ worker[c]["t2c"] = "alive"
        /\ Len(tx[c]["c2t"]) > 0
        /\ ~IsNone(iface[c].authenticated_key)

\* C13: check_channel_subsystem_request accepts exactly the subsystem name
\* "sftp" and rejects every other name.
C13_OnlySftpSubsystem ==
    \A c \in Conns :
        /\ \A ifc \in IfaceStates(c), name \in SubsystemNames :
             check_channel_subsystem_request(ifc, channel[c], name).ret
                 <=> name = "sftp"
        /\ reply[c].op = "check_channel_subsystem_request"
             => (reply[c].ret <=> reply[c].arg = "sftp")

\* "sftp" was accepted on a running session.
C13_Witness ==
    \E c \in Conns :
        /\ reply[c].op = "check_channel_subsystem_request"
        /\ reply[c].arg = "sftp"
        /\ reply[c].ret = TRUE
        /\ worker[c]["c2t"] = "alive"

\* C14: check_auth_publickey returns AUTH_SUCCESSFUL exactly when the
\* authenticator accepted the key, and exactly then the interface's stash
\* becomes (the binding the authenticator returned, the presented
\* username); otherwise the stash stays as it was, and an exception in the
\* authenticator yields AUTH_FAILED.
C14_PublickeyStash ==
    \A c \in Conns :
        /\ \A u \in Usernames, k \in PKeys :
             LET a == authenticate_key(u, k, iface[c].source_ip, catalog)
                 r == check_auth_publickey(iface[c], u, k, catalog)
             IN  /\ r.ret = AUTH_SUCCESSFUL <=> a.success
                 /\ r.ret \in {AUTH_SUCCESSFUL, AUTH_FAILED}
                 /\ a.success =>
                      /\ r.iface.authenticated_key = a.ssh_key
                      /\ r.iface.username = Some(u)
                 /\ ~a.success => r.iface = iface[c]
        /\ \A u \in Usernames :
             LET r == check_auth_publickey_on(iface[c], u, RaisedInAuthenticator)
             IN  r.ret = AUTH_FAILED /\ r.iface = iface[c]
        /\ (reply[c].op = "check_auth_publickey" /\ reply[c].ret = AUTH_SUCCESSFUL)
             => /\ iface[c].username = Some(reply[c].username)
                /\ iface[c].authenticated_key =
                       authenticate_key(reply[c].username, reply[c].arg,
                                        iface[c].source_ip, catalog).ssh_key

\* A key was refused on an interface that holds the stash of an earlier
\* accepted key, under another username: the stash is still the earlier one.
C14_Witness ==
    \E c \in Conns :
        /\ reply[c].op = "check_auth_publickey"
        /\ reply[c].ret = AUTH_FAILED
        /\ ~IsNone(iface[c].authenticated_key)
        /\ iface[c].username # Some(reply[c].username)

\* The catalog holds a disabled row for the fingerprint of key k.
DisabledRowFor(k) ==
    \E r \in catalog : r.fingerprint = get_key_fingerprint(k) /\ ~r.enabled

\* The reason authenticate_key reports for a key whose fingerprint has no
\* row at all (keyU is in no catalog).
UnknownReason ==
    Get(authenticate_key("alice", "keyU", "198.51.100.7", catalog).denied).reason

\* C15: a key whose catalog row exists but is disabled is rejected, and the
\* denial carries the 'disabled' reason, which is not the reason reported
\* for a fingerprint without a row.
C15_DisabledReasonReported ==
    \A c \in Conns :
        (reply[c].op = "check_auth_publickey" /\ DisabledRowFor(reply[c].arg)) =>
            /\ reply[c].ret = AUTH_FAILED
            /\ ~IsNone(reply[c].denied)
            /\ Get(reply[c].denied).reason = "SSH key is disabled"
            /\ Get(reply[c].denied).reason # UnknownReason

\* The catalog holds an enabled row for fingerprint fp.
EnabledRow(fp) == \E r \in catalog : r.fingerprint = fp /\ r.enabled

\* The catalog holds an enabled row for fp that SSHKey accepts.
EnabledValidRow(fp) ==
    \E r \in catalog : r.fingerprint = fp /\ r.enabled /\ SSHKeyValid(r)

Routed(c) == ~IsNone(target[c]) \/ exitReason[c] = "no_route"

\* host is a DNS name: not empty and no IP literal.
IsDnsName(host) == host # "" /\ IsNone(ip_address(host))

\* C17: for an enabled binding whose target_host is a DNS name, with a
\* non-empty target_user and target_port in 1..65535, get_target returns
\* the Target, whatever the restricted networks are.
C17_DnsNameRouted ==
    \A c \in Conns :
        (/\ Routed(c)
         /\ Binding(c).enabled
         /\ IsDnsName(Binding(c).target_host)
         /\ Binding(c).target_user # ""
         /\ Binding(c).target_port \in 1..65535)
        => target[c] = Some([host |-> Binding(c).target_host,
                             port |-> Binding(c).target_port,
                             user |-> Binding(c).target_user])

\* A binding the router must refuse: a port outside 1..65535, or an empty
\* host or user.
BadBinding(r) ==
    \/ r.target_port < 1
    \/ r.target_port > 65535
    \/ r.target_host = ""
    \/ r.target_user = ""

\* C18: a binding whose target_port is outside 1..65535 (0 and 65536
\* included) or whose target_host or target_user is empty is never routed:
\* get_target returns None for it, so the handler does not go on to the
\* proxy, and the authenticator does not even find it.
C18_BadBindingNeverRouted ==
    /\ \A r \in catalog :
         BadBinding(r) =>
             /\ \A u \in Usernames, ip \in SourceIps :
                  LET t == get_target(Some(r), u, ip, restricted_networks).target
                  IN  IsNone(t) /\ AfterRoute(t).pc # "proxy"
             /\ IsNone(find_ssh_key(catalog, r.fingerprint))
    /\ \A c \in Conns :
         (/\ reply[c].op = "get_target"
          /\ ~IsNone(reply[c].arg)
          /\ BadBinding(Get(reply[c].arg)))
         => IsNone(reply[c].ret) /\ IsNone(target[c])

\* get_target was called with the binding whose port is 65536 and returned
\* None.
C18_Witness ==
    \E c \in Conns :
        /\ reply[c].op = "get_target"
        /\ ~IsNone(reply[c].arg)
        /\ Get(reply[c].arg).target_port = 65536
        /\ IsNone(reply[c].ret)

\* What get_target did for connection c: its answer and the events it
\* handed to Database.log_connection_event.
RouteOf(c) ==
    get_target(iface[c].authenticated_key, Text(iface[c].username),
               source_ip[c], restricted_networks)

\* C19: every call of get_target hands exactly one ConnectionEvent to the
\* catalog, with status 'success' when a Target is returned, 'denied' with
\* a reason when the binding or target is refused by validation, and
\* 'error' when an exception was raised.
C19_OneEventPerRoute ==
    \A c \in Conns :
        Routed(c) =>
            /\ Len(RouteOf(c).events) = 1
            /\ RouteOf(c).events[1].status = RouteOf(c).logged
            /\ RouteOf(c).logged = "success" <=> ~IsNone(target[c])
            /\ RouteOf(c).logged = "denied" =>
                   ~IsNone(RouteOf(c).events[1].error_message)

\* The handler of connection c has just made its cap check.
CapChecked(c) ==
    \/ pc[c] = "handshake"
    \/ pc[c] = "finally" /\ exitReason[c] = "limit"

\* C20: a newly accepted connection is refused by the cap check exactly
\* when connection_count, already incremented for it, is strictly greater
\* than MAX_CONNECTIONS_PER_IP * 10; a connection that brings the counter
\* to exactly the cap is served.
C20_RefusedIffAboveCap ==
    \A c \in Conns :
        CapChecked(c) =>
            (exitReason[c] = "limit" <=> connection_count > MAX_CONNECTIONS_PER_IP * 10)

\* C21: a connection refused by the cap check has its socket closed with
\* no transport and no server interface created, no callback answered, no
\* route asked for and no dial made; its handler goes straight to the outer
\* finally, and the step that ends the handler takes its increment off
\* connection_count.
C21_RefusedWithoutHandshake ==
    /\ [](\A c \in Conns :
            exitReason[c] = "limit" =>
                /\ pc[c] \in {"finally", "done"}
                /\ client_socket[c] = "closed"
                /\ transport[c] = "none"
                /\ channel[c] = "none"
                /\ iface[c] = NewInterface("")
                /\ reply[c].op = "none"
                /\ IsNone(target[c])
                /\ ~dialed[c]
                /\ connection_logs[c] = <<>>)
    /\ [][\A c \in Conns :
            (exitReason[c] = "limit" /\ pc'[c] = "done" /\ pc[c] # "done")
                => /\ pc[c] = "finally"
                   /\ connection_count' = connection_count - 1]_vars

\* The handler of a connection refused at the cap has ended, and the
\* counter is below the cap again.
C21_Witness ==
    \E c \in Conns :
        /\ exitReason[c] = "limit"
        /\ pc[c] = "done"
        /\ client_socket[c] = "closed"
        /\ transport[c] = "none"
        /\ connection_count = MAX_CONNECTIONS_PER_IP * 10 - 1

\* found has the fields of binding b, the id apart.
SameBinding(found, b) ==
    /\ found.fingerprint = b.fingerprint
    /\ found.username = b.username
    /\ found.target_host = b.target_host
    /\ found.target_port = b.target_port
    /\ found.target_user = b.target_user
    /\ found.enabled = b.enabled

\* The statement of C22 as the specification words it: after any
\* add_ssh_key that succeeded, find_ssh_key of the binding's fingerprint
\* returns a binding equal to it, the id apart.
C22_InsertThenFind ==
    \A c \in Conns :
        (reply[c].op = "add_ssh_key" /\ reply[c].ret) =>
            LET found == find_ssh_key(catalog, reply[c].arg.fingerprint)
            IN  /\ ~IsNone(found)
                /\ SameBinding(Get(found), reply[c].arg)

\* C22: after an add_ssh_key of an enabled binding that succeeded,
\* find_ssh_key of the binding's fingerprint returns a binding equal to it
\* in fingerprint, username, target_host, target_port, target_user and
\* enabled; after one of a disabled binding it returns None.
C22_InsertThenFindEnabled ==
    \A c \in Conns :
        (reply[c].op = "add_ssh_key" /\ reply[c].ret) =>
            LET found == find_ssh_key(catalog, reply[c].arg.fingerprint)
            IN  IF reply[c].arg.enabled
                THEN /\ ~IsNone(found)
                     /\ SameBinding(Get(found), reply[c].arg)
                ELSE IsNone(found)

\* An enabled binding to port 22 was added to a table that holds rows
\* already.
C22_Witness ==
    \E c \in Conns :
        /\ reply[c].op = "add_ssh_key"
        /\ reply[c].ret
        /\ reply[c].arg.enabled
        /\ reply[c].arg.fingerprint = "SHA256:PPP"
        /\ RowB \in catalog

C24_SecondBootGeneratesNothing ==
    \A i \in 2..Len(boots) :
        /\ ~boots[i].generated
        /\ boots[i].host_key = boots[i - 1].host_key

\* The conditions the specification gives for a fatal configuration.
ConfigInvalid(cfg) ==
    \/ cfg.BASTION_PORT < 1
    \/ cfg.BASTION_PORT > 65535
    \/ cfg.CONNECTION_TIMEOUT < 1
    \/ cfg.MAX_CONNECTIONS_PER_IP < 1

\* C25: Config.validate raises exactly when the port is outside 1..65535,
\* or CONNECTION_TIMEOUT < 1, or MAX_CONNECTIONS_PER_IP < 1; start calls it
\* before it creates the socket, so on an invalid configuration there is
\* never a listening socket, the server never runs and no connection is
\* accepted.
C25_InvalidConfigNeverListens ==
    /\ \A cfg \in Configs : ~IsNone(validate(cfg)) <=> ConfigInvalid(cfg)
    /\ ConfigInvalid(config) =>
         /\ server_socket = "none"
         /\ ~running
         /\ mainPc # "accepting"
         /\ \A c \in Conns : pc[c] = "idle" /\ client_socket[c] = "none"
    /\ mainPc = "failed" => ConfigInvalid(config)

\* start() failed on a configuration whose only fault is a
\* CONNECTION_TIMEOUT of 0; there is no socket.
C25_Witness ==
    /\ mainPc = "failed"
    /\ config.CONNECTION_TIMEOUT = 0
    /\ config.BASTION_PORT = 65535
    /\ config.MAX_CONNECTIONS_PER_IP = 1
    /\ server_socket = "none"

\* What get_target returns for connection c when the writing of its event
\* ends in `outcome`.
RouteUnder(c, outcome) ==
    get_target_recorded(iface[c].authenticated_key, Text(iface[c].username),
                        source_ip[c], restricted_networks, outcome).target

\* C26: what get_target returns does not depend on what becomes of its
\* event: stored, refused by the database or lost to an exception, the
\* Target (or None) is the same, the handler holds that answer, and with a
\* Target it goes on to the proxy.
C26_AuditFailureKeepsRoute ==
    \A c \in Conns :
        /\ pc[c] = "route" =>
             \A o1 \in LogOutcomes, o2 \in LogOutcomes :
                 /\ RouteUnder(c, o1) = RouteUnder(c, o2)
                 /\ AfterRoute(RouteUnder(c, o1)) = AfterRoute(RouteUnder(c, o2))
        /\ Routed(c) =>
             /\ \A o \in LogOutcomes : target[c] = RouteUnder(c, o)
             /\ ~IsNone(target[c]) => exitReason[c] # "no_route"
             /\ (~IsNone(target[c]) /\ pc[c] = "done") => dialed[c]

\* A session was established although no event of its connection was
\* stored.
C26_Witness ==
    \E c \in Conns :
        /\ ~IsNone(target[c])
        /\ connection_logs[c] = <<>>
        /\ dialed[c]
        /\ HasSession(c)

\* The start of connection c's proxy failed at the outbound dial.
DialFailed(c) == exitReason[c] = "proxy_failed" /\ target_ssh[c] = "none"

C28_EmptyBlobRejected ==
    \A c \in Conns :
        reply[c].op = "authenticate_key" =>
            /\ get_key_fingerprint(reply[c].arg) = "" =>
                 /\ ~reply[c].ret.success
                 /\ IsNone(reply[c].ret.ssh_key)
                 /\ ~reply[c].ret.looked_up
            /\ reply[c].arg \in EmptyBlobKeys =>
                 /\ ~reply[c].ret.success
                 /\ ~reply[c].ret.looked_up

\* A relay worker of connection c has terminated.
WorkerEnded(c) == \E d \in Directions : worker[c][d] = "dead"

\* No relay worker of connection c is running.
NoWorkerRuns(c) == \A d \in Directions : worker[c][d] # "alive"

\* C29: once a relay worker of a session has terminated, teardown runs
\* for the session and the other relay worker terminates too: no session
\* is left with one direction relaying for ever.
C29_NoHalfOpenSession ==
    \A c \in Conns :
        /\ WorkerEnded(c) ~> (cleanup[c] = "finished")
        /\ WorkerEnded(c) ~> NoWorkerRuns(c)

\* The monitor tore the session down after one worker ended on an I/O
\* error, closes raised, and the other worker has left on the closed flags.
C29_Witness ==
    \E c \in Conns :
        /\ monitor[c] = "done"
        /\ cleanup[c] = "finished"
        /\ closeRaised[c] # {}
        /\ ended[c]["t2c"] = "error"
        /\ ended[c]["c2t"] = "closed"
        /\ NoWorkerRuns(c)

\* The ways a handler that created a transport gives up or finishes.
TransportExits ==
    {"no_channel", "auth_failed", "no_route", "proxy_failed", "closed",
     "inactive", "transport_error"}

\* C30: a handler that created a transport reaches its outer finally only
\* with the transport closed and the socket still open, and ends with both
\* closed, on each of its exit paths; and once the client channel of an
\* established session is closed, the handler ends.
C30_TransportThenSocketClosed ==
    /\ [](\A c \in Conns :
            transport[c] # "none" =>
                /\ pc[c] = "finally" =>
                     /\ transport[c] = "closed"
                     /\ client_socket[c] = "open"
                /\ pc[c] = "done" =>
                     /\ transport[c] = "closed"
                     /\ client_socket[c] = "closed"
                     /\ exitReason[c] \in TransportExits
                /\ client_socket[c] = "closed" => transport[c] = "closed")
    /\ \A c \in Conns :
         (pc[c] = "wait" /\ channel[c] = "closed") ~> (pc[c] = "done")

\* The handler of a session whose client channel was closed has ended,
\* transport and socket closed.
C30_Witness ==
    \E c \in Conns :
        /\ pc[c] = "done"
        /\ exitReason[c] = "closed"
        /\ HasSession(c)
        /\ transport[c] = "closed"
        /\ client_socket[c] = "closed"

\* The handler of connection c passed its cap check and has not reached
\* the decrement of its outer finally.
Serving(c) ==
    \/ pc[c] \in {"handshake", "route", "proxy", "wait", "close_transport"}
    \/ pc[c] = "finally" /\ exitReason[c] # "limit"

\* The connections that passed the cap check and are not finished.
ServedNow ==
    others.served + Cardinality({c \in Conns : Serving(c)})

Counted(c) ==
    pc[c] \in {"limit", "handshake", "route", "proxy", "wait",
               "close_transport", "finally"}

\* The handlers that have executed their increment and not yet their
\* decrement.
HandlersCounted ==
    OthersCounted(others) + Cardinality({c \in Conns : Counted(c)})

\* No handler is running.
NoHandlerRuns ==
    /\ OthersCounted(others) = 0
    /\ \A c \in Conns : pc[c] \in {"idle", "done"}

\* C32: connection_count is the number of handlers that have executed
\* their increment and not yet their decrement; it is never negative and
\* is 0 when no handler runs; a handler, served or refused, adds one when
\* it leaves its increment, takes one off when it ends, and changes the
\* counter at no other step.
C32_CountIsHandlersCounted ==
    /\ [](/\ connection_count = HandlersCounted
          /\ connection_count >= 0
          /\ NoHandlerRuns => connection_count = 0)
    /\ [][\A c \in Conns :
            /\ (pc[c] = "inc" /\ pc'[c] # "inc")
                 => /\ pc'[c] = "limit"
                    /\ connection_count' = connection_count + 1
            /\ (pc[c] # "done" /\ pc'[c] = "done")
                 => /\ pc[c] = "finally"
                    /\ connection_count' = connection_count - 1
            /\ (pc'[c] # pc[c] /\ pc[c] # "inc" /\ pc'[c] # "done")
                 => connection_count' = connection_count
            /\ pc[c] = "done" => pc'[c] = "done"]_vars

\* The followed handler has ended after being refused at the cap, while
\* other handlers, served and refused, are still counted.
C32_Witness ==
    /\ pc[Followed] = "done"
    /\ exitReason[Followed] = "limit"
    /\ others.served > 0
    /\ others.refused > 0
    /\ connection_count = OthersCounted(others)

\* C33: when setup_proxy_session returned False (the handler gave up with
\* a failed proxy start), no outbound SSH client the call opened is still
\* open.
C33_FailedSetupClosesClient ==
    \A c \in Conns :
        exitReason[c] = "proxy_failed" => target_ssh[c] # "open"

\* The closes and the closure log of one complete teardown.
OneTeardown ==
    <<"client_channel", "target_channel", "target_ssh", "log_closed">>

\* C34: whoever calls _cleanup_connection for a session and however often,
\* the three handles are closed and the closure is logged by one
\* invocation, and an invocation after that one changes nothing.
C34_CleanupRunsOnce ==
    /\ [](\A c \in Conns : cleanup[c] = "finished" => closeLog[c] = OneTeardown)
    /\ [][\A c \in Conns :
            cleanup[c] = "finished" =>
                /\ closeLog'[c] = closeLog[c]
                /\ active_connections'[c] = active_connections[c]]_vars

\* C35: on one interface, authenticated_key and username change only in a
\* check_auth_publickey call that returns AUTH_SUCCESSFUL, which sets them
\* to the binding of the key and the username of that call; a call that
\* returns AUTH_FAILED leaves both as they were, and a stashed binding is
\* never cleared.
C35_StashIsLastAcceptedKey ==
    /\ [](\A c \in Conns :
            /\ (reply[c].op = "check_auth_publickey"
                  /\ reply[c].ret = AUTH_SUCCESSFUL)
                 => /\ ~IsNone(iface[c].authenticated_key)
                    /\ iface[c].authenticated_key =
                           authenticate_key(reply[c].username, reply[c].arg,
                                            iface[c].source_ip, catalog).ssh_key
                    /\ iface[c].username = Some(reply[c].username)
            /\ \A u \in Usernames, k \in PKeys :
                 LET r == check_auth_publickey(iface[c], u, k, catalog)
                 IN  r.ret = AUTH_FAILED => r.iface = iface[c])
    /\ [][\A c \in Conns :
            /\ ~IsNone(iface[c].authenticated_key)
                 => ~IsNone(iface'[c].authenticated_key)
            /\ (\/ iface'[c].authenticated_key # iface[c].authenticated_key
                \/ iface'[c].username # iface[c].username)
                 => /\ reply'[c].op = "check_auth_publickey"
                    /\ reply'[c].ret = AUTH_SUCCESSFUL]_vars

\* A key was refused for a username other than the stashed one, on an
\* interface that holds an accepted binding, and binding and username are
\* still those of the accepted call.
C35_Witness ==
    \E c \in Conns :
        /\ reply[c].op = "check_auth_publickey"
        /\ reply[c].ret = AUTH_FAILED
        /\ ~IsNone(iface[c].authenticated_key)
        /\ ~IsNone(iface[c].username)
        /\ Get(iface[c].username) # reply[c].username

\* The server is stopped: running is False, the listening socket is not
\* open, and start() has returned or raised.
Stopped ==
    /\ ~running
    /\ server_socket # "open"
    /\ mainPc \in {"returned", "failed"}

\* C36: a shutdown request delivered at any point after the signal
\* handlers are installed, before start() has created its socket and set
\* running included, eventually leaves the server stopped.
C36_ShutdownStopsServer ==
    ~appRunning ~> Stopped

\* Session s is live: started, and its monitor has not torn it down.
Live(s) == fleet.sessions[s].id # "" /\ ~fleet.sessions[s].torn

\* C37: a live session keeps its own registry entry and its open handles
\* whatever other sessions do: no registration, under the same derived id
\* or another, replaces its entry, and no teardown of another session
\* closes its handles.
C37_LiveSessionKeepsEntry ==
    \A s \in Sessions :
        Live(s) =>
            /\ [id |-> fleet.sessions[s].id, owner |-> s]
                   \in fleet.registries[fleet.sessions[s].proxy]
            /\ \A h \in DOMAIN fleet.sessions[s].handles :
                 fleet.sessions[s].handles[h] = "open"

\* Two sessions were registered under the same derived id; the first was
\* torn down, its handles closed, and the second is live.
C37_Witness ==
    /\ fleet.sessions["first"].id = fleet.sessions["second"].id
    /\ fleet.sessions["first"].torn
    /\ fleet.sessions["first"].handles.target_ssh = "closed"
    /\ Live("second")

\* The catalog holds an enabled row for fingerprint fp from which an SSHKey
\* can be built.
ValidEnabledRow(fp) ==
    \E r \in catalog : r.fingerprint = fp /\ r.enabled /\ SSHKeyValid(r)

\* C38: authentication fails closed.  authenticate_key accepts only with
\* the valid, enabled row of the key's fingerprint in hand; when the lookup
\* fails or raises, or the row cannot be turned into an SSHKey, it returns
\* (False, None), and check_auth_publickey then returns AUTH_FAILED and
\* leaves authenticated_key unset, as it does when authenticate_key raises.
C38_AuthFailsClosed ==
    /\ \A c \in Conns :
         reply[c].op = "authenticate_key" =>
             /\ reply[c].ret.success =>
                  /\ ~IsNone(reply[c].ret.ssh_key)
                  /\ Get(reply[c].ret.ssh_key) \in catalog
                  /\ Get(reply[c].ret.ssh_key).fingerprint =
                         get_key_fingerprint(reply[c].arg)
                  /\ Get(reply[c].ret.ssh_key).enabled
                  /\ SSHKeyValid(Get(reply[c].ret.ssh_key))
             /\ ~reply[c].ret.success => IsNone(reply[c].ret.ssh_key)
    /\ \A u \in Usernames, k \in AuthKeys, ip \in SourceIps,
          outcome \in LookupOutcomes :
         LET a == authenticate_key_on(u, k, ip,
                      Lookup(catalog, get_key_fingerprint(k), outcome))
             r == check_auth_publickey_on(NewInterface(ip), u, Returned(a))
         IN  (outcome # "answers" \/ ~ValidEnabledRow(get_key_fingerprint(k)))
                => /\ ~a.success
                   /\ IsNone(a.ssh_key)
                   /\ r.ret = AUTH_FAILED
                   /\ IsNone(r.iface.authenticated_key)
    /\ \A u \in Usernames, ip \in SourceIps :
         LET r == check_auth_publickey_on(NewInterface(ip), u, RaisedInAuthenticator)
         IN  r.ret = AUTH_FAILED /\ IsNone(r.iface.authenticated_key)

\* The key of an enabled row with target_port 0 was presented, the catalog
\* was asked, and the key was refused.
C38_Witness ==
    \E c \in Conns :
        /\ reply[c].op = "authenticate_key"
        /\ reply[c].arg = "keyZ"
        /\ RowZ \in catalog
        /\ reply[c].ret.looked_up
        /\ ~reply[c].ret.success
        /\ IsNone(reply[c].ret.ssh_key)

\* Connection c's rows of connection_logs hold an event of this status for
\* its fingerprint and source address.
HasEvent(c, status) ==
    \E i \in 1..Len(connection_logs[c]) :
        /\ connection_logs[c][i].status = status
        /\ connection_logs[c][i].fingerprint = Binding(c).fingerprint
        /\ connection_logs[c][i].source_ip = source_ip[c]

\* C39: a 'success' event in connection_logs belongs to a session whose
\* dial succeeded: once the handler of a connection whose dial failed has
\* ended, a 'success' event of that connection comes with an 'error' event
\* for the same fingerprint and source address.
C39_SuccessEventMeansDialed ==
    \A c \in Conns :
        (DialFailed(c) /\ pc[c] = "done" /\ HasEvent(c, "success"))
            => HasEvent(c, "error")

=============================================================================
